---- MODULE Spec2Model ----
(***************************************************************************)
(* A model of the simulation engine of DistributedComputingSimulator:      *)
(* the ordering structures (CustomMinHeap, CustomDict), the fault injector *)
(* (errorModule), the communication layer (Communication) and the two run  *)
(* disciplines (async_run, sync_run).                                      *)
(*                                                                         *)
(* Times are integers.  In the random-delay model one unit of simulated    *)
(* time is RandomScale ticks, so random.uniform(0, 1) is a draw from       *)
(* 0..RandomScale.  Probabilities are counted in quarters: 0, 2, 4 stand   *)
(* for 0, 0.5 and 1, and random.random() in [0, 1) is a draw from {1, 3},  *)
(* that is 0.25 or 0.75.                                                   *)
(***************************************************************************)
EXTENDS Integers, Sequences, FiniteSets, TLC

VARIABLES
    network,              \* Initialization: the run parameters, fixed before the run
    state,                \* Computer._state, per node id
    sent_msg_count,       \* Computer.sent_msg_count, per node id
    received_msg_count,   \* Computer.received_msg_count, per node id
    heap,                 \* CustomMinHeap.heap (the heapq array)
    counter,              \* CustomMinHeap.counter
    dict,                 \* CustomDict.dict
    last_arrival_time,    \* Communication.last_arrival_time
    collapsed_nodes,      \* CollapseConfig.collapsed_nodes
    corruption_stats,     \* errorModule.corruption_stats
    pc,                   \* position of the run loop
    idx,                  \* position in network.connected_computers of the running loop
    current_round,        \* sync_run: current_round
    all_terminated,       \* sync_run: all_terminated
    fields,               \* the algorithm's scratch fields, per node id
    popped,               \* history: entries popped from the heap since the last push
    lastCall,             \* history: the last callback invocation or direct call
    delivered,            \* history: the payloads handed to step callbacks, oldest first
    pushes,               \* history: the messages pushed into the ordering structure
    corruption            \* history: the last call of corrupt_message

vars == <<network, state, sent_msg_count, received_msg_count, heap, counter, dict,
          last_arrival_time, collapsed_nodes, corruption_stats, pc, idx,
          current_round, all_terminated, fields, popped, lastCall, delivered, pushes,
          corruption>>

-----------------------------------------------------------------------------
(* Bounds of the model. *)

\* arrival times pushed directly into the heap range over 0..MaxTime
MaxTime == 2
\* pushes into a heap exercised on its own
MaxPush == 4

-----------------------------------------------------------------------------
(* Message (message.py) and NodeState (config.py). *)

ACTIVE == "active"
COLLAPSED == "collapsed"
TERMINATED == "terminated"

NodeState == {ACTIVE, COLLAPSED, TERMINATED}

Message(source, dest, arrival, content) ==
    [source_id |-> source, dest_id |-> dest, arrival_time |-> arrival, content |-> content]

\* Message.__lt__
MessageLt(m1, m2) == m1.arrival_time < m2.arrival_time

-----------------------------------------------------------------------------
(* CustomMinHeap: heapq over the tuples (arrival_time, counter, message).  *)
(* The heapq array is the sequence heap, position p of the array being     *)
(* heap[p + 1].                                                            *)

\* a tuple comparison that ignores the sequence count: ties fall to Message.__lt__
EntryLessNoCounter(a, b) ==
    \/ a[1] < b[1]
    \/ a[1] = b[1] /\ MessageLt(a[3], b[3])

\* Python's comparison of the tuples (arrival_time, counter, message)
EntryLess(a, b) ==
    \/ a[1] < b[1]
    \/ a[1] = b[1] /\ a[2] < b[2]
    \/ a[1] = b[1] /\ a[2] = b[2] /\ MessageLt(a[3], b[3])

RECURSIVE SiftDown(_, _, _, _)
\* heapq._siftdown(heap, startpos, pos), newitem being the item moved
SiftDown(h, startpos, pos, newitem) ==
    IF pos > startpos
    THEN LET parentpos == (pos - 1) \div 2
             parent == h[parentpos + 1]
         IN  IF EntryLess(newitem, parent)
             THEN SiftDown([h EXCEPT ![pos + 1] = parent], startpos, parentpos, newitem)
             ELSE [h EXCEPT ![pos + 1] = newitem]
    ELSE [h EXCEPT ![pos + 1] = newitem]

RECURSIVE SiftUp(_, _, _, _)
\* heapq._siftup(heap, pos): bubble the smaller child up to a leaf, then sift down
SiftUp(h, startpos, pos, newitem) ==
    LET endpos == Len(h)
        childpos == 2 * pos + 1
        rightpos == childpos + 1
    IN  IF childpos < endpos
        THEN LET c == IF rightpos < endpos /\ ~EntryLess(h[childpos + 1], h[rightpos + 1])
                      THEN rightpos ELSE childpos
             IN  SiftUp([h EXCEPT ![pos + 1] = h[c + 1]], startpos, c, newitem)
        ELSE SiftDown([h EXCEPT ![pos + 1] = newitem], startpos, pos, newitem)

\* heapq.heappush(heap, item)
HeapPush(h, item) == SiftDown(Append(h, item), 0, Len(h), item)

\* heapq.heappop(heap): the item returned
HeapPopItem(h) == h[1]

\* heapq.heappop(heap): the heap left
HeapPopRest(h) ==
    LET lastelt == h[Len(h)]
        rest == SubSeq(h, 1, Len(h) - 1)
    IN  IF rest # <<>> THEN SiftUp([rest EXCEPT ![1] = lastelt], 0, 0, lastelt) ELSE rest

\* CustomMinHeap.push: the heap after the push (the counter is bumped by the caller)
MinHeapPush(h, c, message) == HeapPush(h, <<message.arrival_time, c, message>>)

\* an emptiness test that already succeeds when one entry is left
MinHeapEmptyAtOne(h) == Len(h) <= 1

\* CustomMinHeap.empty
MinHeapEmpty(h) == Len(h) = 0

-----------------------------------------------------------------------------
(* Values. *)

\* Python's None where an integer is expected
None == 0 - 1

\* payloads: a string, a record (dict) with the one integer field "value", or None
StrContent(v) == [kind |-> "str", v |-> v]
DictContent(v) == [kind |-> "dict", v |-> v]
\* a record (dict) whose field "value" is a float
FloatContent(v) == [kind |-> "float", v |-> v]
NoneContent == [kind |-> "none", v |-> <<>>]

\* the second argument of should_collapse: absent, a round number, or a Message
NoRound == [kind |-> "none", v |-> 0]
IntRound(r) == [kind |-> "int", v |-> r]
MessageRound == [kind |-> "message", v |-> 0]

\* dict.get(key, default)
Get(f, key, default) == IF key \in DOMAIN f THEN f[key] ELSE default

Max(a, b) == IF a >= b THEN a ELSE b

Min(a, b) == IF a <= b THEN a ELSE b

\* the elements of a sequence
Range(seq) == {seq[i] : i \in DOMAIN seq}

\* the node ids of the network (network_dict's keys)
Ids == Range(network.connected_computers)

-----------------------------------------------------------------------------
(* The mutable part of the network during a run, passed through the        *)
(* operations as one record.  crashed: an exception has been raised and is *)
(* unwinding the run.                                                      *)

Cur ==
    [state |-> state, sent_msg_count |-> sent_msg_count,
     received_msg_count |-> received_msg_count, heap |-> heap, counter |-> counter,
     dict |-> dict, last_arrival_time |-> last_arrival_time,
     collapsed_nodes |-> collapsed_nodes, corruption_stats |-> corruption_stats,
     fields |-> fields, lastCall |-> lastCall, delivered |-> delivered,
     pushes |-> pushes, crashed |-> FALSE]

Commit(s) ==
    /\ state' = s.state
    /\ sent_msg_count' = s.sent_msg_count
    /\ received_msg_count' = s.received_msg_count
    /\ heap' = s.heap
    /\ counter' = s.counter
    /\ dict' = s.dict
    /\ last_arrival_time' = s.last_arrival_time
    /\ collapsed_nodes' = s.collapsed_nodes
    /\ corruption_stats' = s.corruption_stats
    /\ fields' = s.fields
    /\ lastCall' = s.lastCall
    /\ delivered' = s.delivered
    /\ pushes' = s.pushes

\* an exception raised inside the run
Raise(s) == [s EXCEPT !.crashed = TRUE]

-----------------------------------------------------------------------------
(* Computer (computer.py). *)

\* Computer.state setter
SetState(s, n, value) ==
    IF s.state[n] # value THEN [s EXCEPT !.state[n] = value] ELSE s

\* Computer.collapse
Collapse(s, n) == SetState(s, n, COLLAPSED)

-----------------------------------------------------------------------------
(* CollapseConfig (errorModule.py). *)

\* CollapseConfig.collapse_node
CollapseNode(s, n) ==
    [Collapse(s, n) EXCEPT !.collapsed_nodes = @ \cup {n}]

\* a should_collapse whose round trigger fires in every round from the configured one
\* on, whatever the recurrence period
ShouldCollapseFromRoundOn(s, n, cr, draw) ==
    IF s.crashed THEN s
    ELSE IF ~network.collapse_declared THEN Raise(s)
    ELSE IF s.state[n] # ACTIVE THEN s
    ELSE IF n \notin DOMAIN network.node_configs THEN s
    ELSE LET c == network.node_configs[n]
             byReceived == /\ c.received_msg_count # None
                           /\ s.received_msg_count[n] >= c.received_msg_count
             bySent == /\ c.sent_msg_count # None
                       /\ s.sent_msg_count[n] >= c.sent_msg_count
             byCounts == IF byReceived \/ bySent THEN CollapseNode(s, n) ELSE s
         IN  IF draw > c.probability THEN s
             ELSE IF cr.kind # "none" /\ c.round # None
             THEN IF cr.kind = "message"
                  THEN Raise(s)
                  ELSE IF cr.v >= c.round THEN CollapseNode(s, n) ELSE byCounts
             ELSE byCounts

\* CollapseConfig.should_collapse(computer, current_round), draw being
\* random.random(); called on network.collapse_config, which is None when the
\* algorithm module declares no collapse_config
ShouldCollapse(s, n, cr, draw) ==
    IF s.crashed THEN s
    ELSE IF ~network.collapse_declared THEN Raise(s)
    ELSE IF s.state[n] # ACTIVE THEN s
    ELSE IF n \notin DOMAIN network.node_configs THEN s
    ELSE LET c == network.node_configs[n]
             byReceived == /\ c.received_msg_count # None
                           /\ s.received_msg_count[n] >= c.received_msg_count
             bySent == /\ c.sent_msg_count # None
                       /\ s.sent_msg_count[n] >= c.sent_msg_count
             byCounts == IF byReceived \/ bySent THEN CollapseNode(s, n) ELSE s
         IN  IF draw > c.probability THEN s
             ELSE IF cr.kind # "none" /\ c.round # None
             THEN IF c.round_reoccurrence # 0
                  THEN IF cr.kind = "message"
                       THEN Raise(s)   \* Message >= int: TypeError
                       ELSE IF cr.v >= c.round
                               /\ (cr.v - c.round) % c.round_reoccurrence = 0
                            THEN CollapseNode(s, n)
                            ELSE byCounts
                  ELSE IF cr.kind = "int" /\ cr.v = c.round
                       THEN CollapseNode(s, n)
                       ELSE byCounts
             ELSE byCounts

-----------------------------------------------------------------------------
(* Message loss and corruption (errorModule.py).                           *)
(* corruption_info is the record                                           *)
(*   [loss |-> RESERVED_PROBABILITY_OF_LOSS or None,                       *)
(*    corruption |-> RESERVED_PROBABILITY_OF_CORRUPTION or None,           *)
(*    field |-> the "corruption" entry for the field "value":              *)
(*              "absent", "_RANDOM" or "replace" (a literal value)]        *)

\* the literal a "replace" corruption writes into the field
ReplaceValue == <<0>>

RECURSIVE BitXor(_, _)
\* a ^ b on non-negative integers
BitXor(a, b) ==
    IF a = 0 THEN b
    ELSE IF b = 0 THEN a
    ELSE 2 * BitXor(a \div 2, b \div 2) + (IF a % 2 = b % 2 THEN 0 ELSE 1)

RECURSIVE Pow2(_)
\* 1 << k
Pow2(k) == IF k = 0 THEN 1 ELSE 2 * Pow2(k - 1)

RECURSIVE Digits(_)
\* len(str(v)) for a non-negative integer
Digits(v) == IF v < 10 THEN 1 ELSE 1 + Digits(v \div 10)

\* corrupt_message_content(message_content, corruption_info.get("corruption")),
\* bit being random.randint(0, len(str(original_value)))
TypeErrorRaised == [kind |-> "raised", v |-> <<>>]

CorruptMessageContent(content, field, bit) ==
    IF content.kind \notin {"dict", "float"} \/ field = "absent" THEN content
    ELSE IF field = "_RANDOM"
    THEN IF content.kind = "float"
         THEN TypeErrorRaised   \* float ^ int: unsupported operand type(s)
         ELSE DictContent(<<BitXor(content.v[1], Pow2(bit))>>)
    ELSE DictContent(ReplaceValue)

\* the fields corrupt_message_content records as corrupted
FieldsCorrupted(content, field) ==
    IF content.kind \notin {"dict", "float"} \/ field = "absent" THEN 0 ELSE 1

\* corrupt_message with the corruption gate evaluated before the loss gate
CorruptMessageCorruptionFirst(content, info, stats, d) ==
    LET processed == [stats EXCEPT !.total_messages_processed = @ + 1]
        corrupts == info.corruption # None /\ d.corr < info.corruption
        corrupted == IF corrupts THEN CorruptMessageContent(content, info.field, d.bit)
                     ELSE content
        st1 == IF info.corruption = None THEN processed
               ELSE IF corrupts
               THEN [processed EXCEPT
                       !.field_corruptions = @ + FieldsCorrupted(content, info.field),
                       !.messages_corrupted = @ + (IF corrupted # content THEN 1 ELSE 0),
                       !.corruption_attempts = @ + (IF corrupted # content THEN 1 ELSE 0)]
               ELSE [processed EXCEPT !.corruption_attempts = @ + 1]
    IN  IF info.loss # None /\ d.loss < info.loss
        THEN [content |-> NoneContent,
              stats |-> [st1 EXCEPT !.messages_lost = @ + 1, !.loss_attempts = @ + 1]]
        ELSE [content |-> corrupted,
              stats |-> IF info.loss # None
                        THEN [st1 EXCEPT !.loss_attempts = @ + 1] ELSE st1]

\* corrupt_message recording a loss and still returning the payload
CorruptMessageLossReturned(content, info, stats, d) ==
    LET r == CorruptMessageCorruptionFirst(content, info, stats, d)
    IN  [content |-> IF r.content = NoneContent THEN content ELSE r.content,
         stats |-> r.stats]

\* corrupt_message(message_content, corruption_info): the content returned and the
\* statistics left; d.loss and d.corr are the two random.random() draws
CorruptMessage(content, info, stats, d) ==
    LET processed == [stats EXCEPT !.total_messages_processed = @ + 1]
        afterLoss == IF info.loss # None
                     THEN [processed EXCEPT !.loss_attempts = @ + 1]
                     ELSE processed
    IN  IF info.loss # None /\ d.loss < info.loss
        THEN [content |-> NoneContent,
              stats |-> [processed EXCEPT !.messages_lost = @ + 1,
                                          !.loss_attempts = @ + 1]]
        ELSE IF info.corruption # None
        THEN IF d.corr < info.corruption
             THEN LET corrupted == CorruptMessageContent(content, info.field, d.bit)
                  IN  IF corrupted = TypeErrorRaised
                      THEN [content |-> corrupted, stats |-> afterLoss]
                      ELSE
                      [content |-> corrupted,
                       stats |-> [afterLoss EXCEPT
                          !.field_corruptions = @ + FieldsCorrupted(content, info.field),
                          !.messages_corrupted = @ + (IF corrupted # content THEN 1 ELSE 0),
                          !.corruption_attempts = @ + (IF corrupted # content THEN 1 ELSE 0)]]
             ELSE [content |-> content,
                   stats |-> [afterLoss EXCEPT !.corruption_attempts = @ + 1]]
        ELSE [content |-> content, stats |-> afterLoss]

\* MessageCorruptionStats.__init__
NoStats ==
    [total_messages_processed |-> 0, messages_lost |-> 0, messages_corrupted |-> 0,
     loss_attempts |-> 0, corruption_attempts |-> 0, field_corruptions |-> 0]

-----------------------------------------------------------------------------
(* ReorderConfig (errorModule.py). *)

\* an is_edge_ordered that tests the directed pair as given, without normalising it
IsEdgeOrderedDirected(source, dest) == <<source, dest>> \notin network.unordered_edges

\* an is_edge_ordered that reports no edge as ordered
IsEdgeOrderedNever(source, dest) == source = dest

\* ReorderConfig.is_edge_ordered
IsEdgeOrdered(source, dest) ==
    <<Min(source, dest), Max(source, dest)>> \notin network.unordered_edges

-----------------------------------------------------------------------------
(* CustomDict (custom_dict.py): dict maps keys to lists of messages.  The  *)
(* key (dest_id, round) is the tuple <<dest_id, round>>; a bare dest_id    *)
(* used as a key is the tuple <<dest_id>>.                                 *)

\* CustomDict.push
DictPush(d, message) ==
    LET key == <<message.dest_id, message.arrival_time>>
    IN  IF key \in DOMAIN d
        THEN [d EXCEPT ![key] = Append(@, message)]
        ELSE [k \in DOMAIN d \cup {key} |-> IF k = key THEN <<message>> ELSE d[k]]

\* a lookup that reads the slot of the round before the one asked for
GetMessagesForPreviousRound(d, dest_id, round) == Get(d, <<dest_id, round - 1>>, <<>>)

\* a lookup that reads the slot of the round after the one asked for
GetMessagesForNextRound(d, dest_id, round) == Get(d, <<dest_id, round + 1>>, <<>>)

\* CustomDict.get_messages_for_specific_dest
GetMessagesForSpecificDest(d, dest_id, round) == Get(d, <<dest_id, round>>, <<>>)

\* CustomDict.size
DictSize(d) == Cardinality(UNION {{k} \X DOMAIN d[k] : k \in DOMAIN d})

\* CustomDict.clear_key
ClearKey(d, dest_id) ==
    IF <<dest_id>> \in DOMAIN d
    THEN [k \in DOMAIN d \ {<<dest_id>>} |-> d[k]]
    ELSE d

-----------------------------------------------------------------------------
(* Communication (communication.py). *)

\* no corruption_info given to send_message
NoInfo == [present |-> FALSE, loss |-> None, corruption |-> None, field |-> "absent"]

\* the draws one send_message may make: delay = random.uniform(0, 1) in ticks,
\* loss, corr, coll = random.random() in quarters, bit = random.randint(0, digits)
NoDraws == [delay |-> 0, loss |-> 0, corr |-> 0, bit |-> 0, coll |-> 0]

\* Initialization.get_edge_delay: the configured constant delay of an edge
GetEdgeDelay(source, dest) == network.edge_delay

\* message_queue.push with a CustomMinHeap whose push does not advance the sequence
\* count
QueuePushNoCounter(s, message) ==
    IF network.sync = "Sync"
    THEN [s EXCEPT !.dict = DictPush(@, message), !.pushes = Append(@, message)]
    ELSE [s EXCEPT !.heap = MinHeapPush(@, s.counter, message),
                   !.pushes = Append(@, message)]

\* message_queue.push, with a CustomDict in sync mode and a CustomMinHeap otherwise
QueuePush(s, message) ==
    IF network.sync = "Sync"
    THEN [s EXCEPT !.dict = DictPush(@, message), !.pushes = Append(@, message)]
    ELSE [s EXCEPT !.heap = MinHeapPush(@, s.counter, message),
                   !.counter = @ + 1,
                   !.pushes = Append(@, message)]

\* last_arrival_time[(source, dest)] = t
SetLastArrival(last, source, dest, t) ==
    [k \in DOMAIN last \cup {<<source, dest>>} |->
        IF k = <<source, dest>> THEN t ELSE last[k]]

\* Communication.send_message(source, dest, message_info, sent_time, corruption_info)
\* a destination test that only refuses collapsed destinations
DestComputerNotCollapsed(s, dest) == s.state[dest] # COLLAPSED

\* send_message: dest_computer_active
DestComputerActive(s, dest) == s.state[dest] = ACTIVE

\* a source test that only lets Active sources send
CurrentComputerIsActive(s, source) == s.state[source] = ACTIVE

\* a source test that lets every source send, also a Collapsed one
CurrentComputerAnyState(s, source) == s.state[source] \in {ACTIVE, TERMINATED, COLLAPSED}

\* send_message: current_computer_active
CurrentComputerActive(s, source) == s.state[source] # COLLAPSED

SendMessage(s, source, dest, content, sent_time, info, d) ==
    IF s.crashed THEN s
    ELSE IF dest \notin Range(network.connectedEdges[source]) THEN s
    ELSE
    LET given == IF sent_time = None THEN 0 ELSE sent_time
        random == network.sync = "Async" /\ network.delay_type = "Random"
        edge_delay == IF network.sync = "Async"
                      THEN IF random THEN d.delay ELSE GetEdgeDelay(source, dest)
                      ELSE 1
        sent == IF random /\ IsEdgeOrdered(source, dest)
                THEN Max(given, Get(s.last_arrival_time, <<source, dest>>, 0))
                ELSE given
        current_computer_active == CurrentComputerActive(s, source)
        dest_computer_active == DestComputerActive(s, dest)
        \* the statements after should_collapse returned or raised
        recorded(s3) ==
            IF s3.crashed THEN s3
            ELSE [s3 EXCEPT !.last_arrival_time =
                      SetLastArrival(@, source, dest, sent + edge_delay)]
        \* the statements after message.content was set to cm.content
        pushed(cm) ==
            LET message == Message(source, dest, sent + edge_delay, cm.content)
                s1 == [s EXCEPT !.corruption_stats = cm.stats]
            IN  IF cm.content.kind = "raised" THEN Raise(s1)
                ELSE IF cm.content.kind # "none"
                THEN recorded(ShouldCollapse(
                        [QueuePush(s1, message) EXCEPT !.sent_msg_count[source] = @ + 1],
                        source, NoRound, d.coll))
                ELSE s1
    IN  IF current_computer_active /\ dest_computer_active
        THEN pushed(IF info.present
                    THEN CorruptMessage(content, info, s.corruption_stats, d)
                    ELSE [content |-> content, stats |-> s.corruption_stats])
        ELSE s

RECURSIVE SendToAllFrom(_, _, _, _, _, _, _)
\* the loop of send_to_all from position i of the neighbour list
SendToAllFrom(s, i, source, content, sent_time, info, ds) ==
    IF i > Len(network.connectedEdges[source]) THEN s
    ELSE SendToAllFrom(
            SendMessage(s, source, network.connectedEdges[source][i], content,
                        sent_time, info, ds[i]),
            i + 1, source, content, sent_time, info, ds)

\* Communication.send_to_all(source_id, message_info, sent_time, corruption_info);
\* ds[i] are the draws of the i-th send
SendToAll(s, source, content, sent_time, info, ds) ==
    SendToAllFrom(s, 1, source, content, sent_time, info, ds)

-----------------------------------------------------------------------------
(* The algorithm plugins.  network.algorithm names the module loaded:      *)
(*   "sync_BFS"  algorithms/sync_BFS.py                                    *)
(*   "pingpong"  algorithms/reorder_test/reorder_pingpong_test.py, with    *)
(*               the sender and the number of messages as parameters       *)
(*   "broadcastAlgorithm"  algorithms/broadcastAlgorithm.py                 *)
(*   "testAlgorithmSimple", "testAlgorithmSimpleAsync"  the two plugins of *)
(*               tests/system                                              *)
(*   "any"       an arbitrary plugin: each callback terminates the node or *)
(*               not, before or after one send_message or one send_to_all  *)
(* network.missing holds the names among "init" and "mainAlgorithm" that   *)
(* the module does not define (algorithms/try_algo.py defines no init).    *)
(* A plan p holds what an arbitrary plugin chooses to do in one callback   *)
(* and the random draws made during the callback.                          *)

\* np.inf
Inf == 0 - 2

\* a < b where b may be np.inf
LessDist(a, b) == b = Inf \/ (a # Inf /\ a < b)

\* the attributes the shipped plugins keep on a computer, unset
NoFields ==
    [distance |-> None, parent |-> None, counter |-> None, leader |-> None,
     messages_received |-> None]

\* sync_BFS.init
BfsInit(s, n) ==
    LET f == IF network.is_root[n]
             THEN [NoFields EXCEPT !.distance = 0, !.parent = n]
             ELSE [NoFields EXCEPT !.distance = Inf, !.parent = None]
    IN  SetState([s EXCEPT !.fields[n] = f], n, ACTIVE)

RECURSIVE BfsMessages(_, _, _, _, _, _)
\* sync_BFS.mainAlgorithm: the loop over the round's messages, from position i
BfsMessages(s, n, round, messages, i, p) ==
    IF i > Len(messages) \/ s.crashed THEN s
    ELSE LET dist == messages[i].v[1]
             parent == messages[i].v[2]
         IN  IF LessDist(dist + 1, s.fields[n].distance)
             THEN LET s1 == [s EXCEPT !.fields[n].parent = parent,
                                      !.fields[n].distance = dist + 1]
                      s2 == SendToAll(s1, n, StrContent(<<dist + 1, n>>), round,
                                      NoInfo, p.ds)
                      s3 == IF s2.crashed THEN s2 ELSE SetState(s2, n, TERMINATED)
                  IN  BfsMessages(s3, n, round, messages, i + 1, p)
             ELSE BfsMessages(s, n, round, messages, i + 1, p)

\* sync_BFS.mainAlgorithm
BfsMain(s, n, round, messages, p) ==
    IF round = 0
    THEN IF network.is_root[n]
         THEN LET s1 == SendToAll(s, n,
                            StrContent(<<s.fields[n].distance, s.fields[n].parent>>),
                            round, NoInfo, p.ds)
              IN  IF s1.crashed THEN s1 ELSE SetState(s1, n, TERMINATED)
         ELSE s
    ELSE BfsMessages(s, n, round, messages, 1, p)

RECURSIVE PingSends(_, _, _, _, _)
\* reorder_pingpong_test.init: the loop of sends, from i
PingSends(s, n, partner, i, p) ==
    IF i >= network.k THEN s
    ELSE PingSends(SendMessage(s, n, partner, StrContent(<<i>>), None, NoInfo, p.ds[i + 1]),
                   n, partner, i + 1, p)

\* reorder_pingpong_test.init; network.sender is the node that starts (1 in the file)
\* and network.k the number of messages it sends (10 in the file)
PingInit(s, n, p) ==
    LET partner == IF n = 0 THEN 1 ELSE 0
        s1 == SetState([s EXCEPT !.fields[n] = [NoFields EXCEPT !.counter = 0]], n, ACTIVE)
    IN  IF n = network.sender THEN PingSends(s1, n, partner, 0, p) ELSE s1

\* reorder_pingpong_test.mainAlgorithm
PingMain(s, n, message) ==
    [s EXCEPT !.fields[n].counter = message.v[1] + 1]

\* broadcastAlgorithm.init
BroadcastInit(s, n, p) ==
    IF network.is_root[n]
    THEN LET s1 == SendToAll(s, n, StrContent(<<0>>), None, NoInfo, p.ds)
         IN  IF s1.crashed THEN s1 ELSE SetState(s1, n, TERMINATED)
    ELSE s

\* broadcastAlgorithm.mainAlgorithm
BroadcastMain(s, n, time, p) ==
    IF s.state[n] # TERMINATED
    THEN LET s1 == SendToAll(s, n, StrContent(<<0>>), time, NoInfo, p.ds)
         IN  IF s1.crashed THEN s1 ELSE SetState(s1, n, TERMINATED)
    ELSE s

\* the payload f"LEADER {self.id} {self.leader}"
LeaderContent(id, leader) == StrContent(<<id, leader>>)

\* testAlgorithmSimple.init
SimpleInit(s, n) == [s EXCEPT !.fields[n].leader = n]

RECURSIVE SimpleMessages(_, _, _, _)
\* testAlgorithmSimple.mainAlgorithm: the loop over the round's messages, from i
SimpleMessages(s, n, messages, i) ==
    IF i > Len(messages) THEN s
    ELSE LET message_leader == messages[i].v[2]
         IN  SimpleMessages(
                IF message_leader > s.fields[n].leader
                THEN [s EXCEPT !.fields[n].leader = message_leader] ELSE s,
                n, messages, i + 1)

\* testAlgorithmSimple.mainAlgorithm
SimpleMain(s, n, round, messages, p) ==
    IF round = 0
    THEN SendToAll(s, n, LeaderContent(n, s.fields[n].leader), round, NoInfo, p.ds)
    ELSE LET s1 == SimpleMessages(s, n, messages, 1)
         IN  IF round = 2 THEN SetState(s1, n, TERMINATED) ELSE s1

\* testAlgorithmSimpleAsync.init
SimpleAsyncInit(s, n, p) ==
    SendToAll([s EXCEPT !.fields[n].leader = n, !.fields[n].messages_received = 0],
              n, LeaderContent(n, n), 0, NoInfo, p.ds)

\* testAlgorithmSimpleAsync.mainAlgorithm
SimpleAsyncMain(s, n, time, message, p) ==
    IF message.kind = "none" THEN s
    ELSE LET message_leader == message.v[2]
             s1 == [s EXCEPT !.fields[n].messages_received = @ + 1]
             s2 == IF message_leader > s1.fields[n].leader
                   THEN SendToAll([s1 EXCEPT !.fields[n].leader = message_leader], n,
                                  LeaderContent(n, message_leader), time, NoInfo, p.ds)
                   ELSE s1
         IN  IF s2.crashed THEN s2
             ELSE IF s2.fields[n].messages_received >= Len(network.connectedEdges[n])
             THEN SetState(s2, n, TERMINATED)
             ELSE s2

\* a callback of an arbitrary plugin
AnyBody(s, n, p) ==
    LET s1 == IF p.term = "first" THEN SetState(s, n, TERMINATED) ELSE s
        \* a plugin may send the sent_time it passes as the payload: str(sent_time),
        \* or the sent_time it passes and the time it was called with
        content == IF p.send.content.kind = "stamp"
                   THEN StrContent(<<p.send.sent_time>>)
                   ELSE IF p.send.content.kind = "stamp_called"
                   THEN StrContent(<<p.send.sent_time, s.lastCall.time>>)
                   ELSE p.send.content
        terminated(s2) ==
            IF s2.crashed THEN s2
            ELSE IF p.term = "last" THEN SetState(s2, n, TERMINATED) ELSE s2
    IN  terminated(IF p.op = "send"
                   THEN SendMessage(s1, n, p.send.dest, content, p.send.sent_time,
                                    p.send.info, p.ds[1])
                   ELSE IF p.op = "send_to_all"
                   THEN SendToAll(s1, n, content, p.send.sent_time, p.send.info, p.ds)
                   ELSE s1)

\* algorithm_file.init(comp, comm)
AlgInit(s, n, p) ==
    CASE network.algorithm = "sync_BFS" -> BfsInit(s, n)
      [] network.algorithm = "pingpong" -> PingInit(s, n, p)
      [] network.algorithm = "broadcastAlgorithm" -> BroadcastInit(s, n, p)
      [] network.algorithm = "testAlgorithmSimple" -> SimpleInit(s, n)
      [] network.algorithm = "testAlgorithmSimpleAsync" -> SimpleAsyncInit(s, n, p)
      [] OTHER -> AnyBody(s, n, p)

\* algorithm_file.mainAlgorithm(comp, comm, arrival_time, message_content); payloads
\* is the list of payloads of a sync round, or the one payload of an async delivery
AlgMain(s, n, time, payloads, p) ==
    CASE network.algorithm = "sync_BFS" -> BfsMain(s, n, time, payloads, p)
      [] network.algorithm = "pingpong" -> PingMain(s, n, payloads[1])
      [] network.algorithm = "broadcastAlgorithm" -> BroadcastMain(s, n, time, p)
      [] network.algorithm = "testAlgorithmSimple" -> SimpleMain(s, n, time, payloads, p)
      [] network.algorithm = "testAlgorithmSimpleAsync" ->
            SimpleAsyncMain(s, n, time, payloads[1], p)
      [] OTHER -> AnyBody(s, n, p)

\* Communication.run_algorithm(comp, function_name, arrival_time, message_content)
RunAlgorithm(s, n, function_name, time, payloads, p) ==
    IF s.crashed THEN s
    ELSE IF function_name \in network.missing
    THEN \* not callable: "Error: Function ... not found" is logged, None is returned
         [s EXCEPT !.lastCall = [node |-> n, fn |-> "not found", time |-> time,
                                 entry_state |-> s.state[n], payloads |-> payloads]]
    ELSE LET handed == [i \in 1..Len(payloads) |->
                           [node |-> n, content |-> payloads[i], time |-> time]]
             s1 == [s EXCEPT
                      !.lastCall = [node |-> n, fn |-> function_name, time |-> time,
                                    entry_state |-> s.state[n], payloads |-> payloads],
                      !.delivered = IF function_name = "mainAlgorithm"
                                    THEN @ \o handed ELSE @]
         IN  IF function_name = "init"
             THEN AlgInit(s1, n, p)
             ELSE AlgMain(s1, n, time, payloads, p)

\* Communication.receive_message(message, comm)
ReceiveMessage(s, message, p) ==
    IF s.state[message.dest_id] # ACTIVE THEN s
    ELSE LET n == message.dest_id
             s1 == [s EXCEPT !.received_msg_count[n] = @ + 1]
             s2 == ShouldCollapse(s1, n, MessageRound, p.coll)
         IN  RunAlgorithm(s2, n, "mainAlgorithm", message.arrival_time,
                          <<message.content>>, p)

-----------------------------------------------------------------------------
(* The choices of one callback: what an arbitrary plugin does, and the     *)
(* outcomes of the random draws.                                           *)

\* random.uniform(0, 1) is a draw from 0..RandomScale ticks
RandomScale == 2

\* an arbitrary plugin stops sending once MaxMsgs messages have been pushed
MaxMsgs == 3

\* random.random(), in quarters: 0.25 or 0.75
ProbDraws == {1, 3}

DelayDraws ==
    IF network.sync = "Async" /\ network.delay_type = "Random"
    THEN 0..RandomScale ELSE {0}

\* the random.random() of should_collapse, drawn once the node's configuration is found
CollDraws(n) == IF n \in DOMAIN network.node_configs THEN ProbDraws ELSE {0}

\* the draws one send_message of this payload by node n can make
DrawsFor(n, content, info) ==
    [delay : DelayDraws,
     loss : IF info.present /\ info.loss # None THEN ProbDraws ELSE {0},
     corr : IF info.present /\ info.corruption # None THEN ProbDraws ELSE {0},
     bit : IF info.present /\ info.field = "_RANDOM" /\ content.kind = "dict"
           THEN 0..Digits(content.v[1]) ELSE {0},
     coll : CollDraws(n)]

NoSend == [dest |-> None, content |-> NoneContent, sent_time |-> None, info |-> NoInfo]

\* the sent_time arguments an arbitrary plugin passes: those of its profile, or the
\* time it was called with
SentTimes(time) ==
    network.plugin.sent_times \cup (IF time = None THEN {} ELSE {time})

\* the plans of a callback of an arbitrary plugin on node n called with time
AnyPlans(n, time) ==
    LET quiet == {[term |-> t, op |-> "none", send |-> NoSend, ds |-> <<>>, coll |-> c] :
                     t \in network.plugin.terms, c \in CollDraws(n)}
        sends == UNION {
                   {[term |-> t, op |-> "send",
                     send |-> [dest |-> dst, content |-> pl[1], sent_time |-> st,
                               info |-> pl[2]],
                     ds |-> ds, coll |-> c] :
                        t \in network.plugin.terms, dst \in Ids \ {n},
                        st \in SentTimes(time),
                        ds \in [1..1 -> DrawsFor(n, pl[1], pl[2])], c \in CollDraws(n)} :
                   pl \in network.plugin.payloads}
        alls == UNION {
                   {[term |-> t, op |-> "send_to_all",
                     send |-> [dest |-> None, content |-> pl[1], sent_time |-> st,
                               info |-> pl[2]],
                     ds |-> ds, coll |-> c] :
                        t \in network.plugin.terms, st \in SentTimes(time),
                        ds \in [1..Len(network.connectedEdges[n]) -> DrawsFor(n, pl[1], pl[2])],
                        c \in CollDraws(n)} :
                   pl \in network.plugin.payloads}
    IN  quiet
        \cup (IF "send" \in network.plugin.ops /\ Len(pushes) < MaxMsgs THEN sends ELSE {})
        \cup (IF "send_to_all" \in network.plugin.ops /\ Len(pushes) < MaxMsgs
              THEN alls ELSE {})

\* the plans of a callback of the shipped plugins: only the draws
FixedPlans(n, len) ==
    {[term |-> "none", op |-> "none", send |-> NoSend, ds |-> ds, coll |-> c] :
        ds \in [1..len -> DrawsFor(n, NoneContent, NoInfo)], c \in CollDraws(n)}

Plans(n, time) ==
    CASE network.algorithm = "sync_BFS" -> FixedPlans(n, Len(network.connectedEdges[n]))
      [] network.algorithm = "pingpong" -> FixedPlans(n, network.k)
      [] network.algorithm \in {"broadcastAlgorithm", "testAlgorithmSimple",
                                "testAlgorithmSimpleAsync"} ->
            FixedPlans(n, Len(network.connectedEdges[n]))
      [] OTHER -> AnyPlans(n, time)

-----------------------------------------------------------------------------
(* runModule.py. *)

\* Constants.NUMBER_OF_ROUNDS, the configured maximum round count; the runs of the
\* model are capped after this many rounds
NUMBER_OF_ROUNDS == 2

NumComputers == Len(network.connected_computers)

\* async_run / sync_run: one iteration of "for comp in connected_computers:
\* comm.run_algorithm(comp, 'init')"
RunInit ==
    /\ pc = "init"
    /\ LET n == network.connected_computers[idx]
       IN  \E p \in Plans(n, None) :
              LET returned(s) ==
                      /\ Commit(s)
                      /\ pc' = IF s.crashed THEN "crashed"
                               ELSE IF idx < NumComputers THEN "init"
                               ELSE IF network.sync = "Sync" THEN "while" ELSE "loop"
                      /\ idx' = IF s.crashed THEN idx
                                ELSE IF idx < NumComputers THEN idx + 1 ELSE 1
              IN  returned(RunAlgorithm(Cur, n, "init", None, <<>>, p))
    /\ UNCHANGED <<network, corruption, current_round, all_terminated, popped>>

\* async_run: one iteration of "while not message_queue.empty()": pop and receive
AsyncDeliver ==
    /\ pc = "loop"
    /\ ~MinHeapEmpty(heap)
    /\ LET message == HeapPopItem(heap)[3]
           s0 == [Cur EXCEPT !.heap = HeapPopRest(heap)]
       IN  \E p \in Plans(message.dest_id, message.arrival_time) :
              LET returned(s) ==
                      /\ Commit(s)
                      /\ pc' = IF s.crashed THEN "crashed" ELSE "loop"
              IN  returned(ReceiveMessage(s0, message, p))
    /\ UNCHANGED <<network, corruption, idx, current_round, all_terminated, popped>>

\* async_run: the loop ends when the queue is empty
AsyncFinish ==
    /\ pc = "loop"
    /\ MinHeapEmpty(heap)
    /\ pc' = "done"
    /\ UNCHANGED <<network, corruption, state, sent_msg_count, received_msg_count, heap, counter,
                   dict, last_arrival_time, collapsed_nodes, corruption_stats, idx,
                   current_round, all_terminated, fields, popped, lastCall, delivered,
                   pushes>>

\* sync_run's loop test without the reset of all_terminated at the top of the round
SyncWhileNoReset ==
    /\ pc = "while"
    /\ IF all_terminated > 0
       THEN /\ idx' = 1
            /\ pc' = "for"
       ELSE /\ pc' = "done"
            /\ UNCHANGED idx
    /\ UNCHANGED <<network, corruption, state, sent_msg_count, received_msg_count, heap,
                   counter, dict, last_arrival_time, collapsed_nodes, corruption_stats,
                   current_round, all_terminated, fields, popped, lastCall, delivered,
                   pushes>>

\* sync_run: the test of "while all_terminated > 0" and the reset of the count
SyncWhile ==
    /\ pc = "while"
    /\ IF all_terminated > 0
       THEN /\ all_terminated' = NumComputers
            /\ idx' = 1
            /\ pc' = "for"
       ELSE /\ pc' = "done"
            /\ UNCHANGED <<all_terminated, idx>>
    /\ UNCHANGED <<network, corruption, state, sent_msg_count, received_msg_count, heap, counter,
                   dict, last_arrival_time, collapsed_nodes, corruption_stats,
                   current_round, fields, popped, lastCall, delivered, pushes>>

\* sync_run: the body of "for comp in connected_computers" for one computer
SyncNode ==
    /\ pc = "for"
    /\ idx <= NumComputers
    /\ LET comp == network.connected_computers[idx]
       IN  IF state[comp] = TERMINATED \/ state[comp] = COLLAPSED
           THEN /\ all_terminated' = all_terminated - 1
                /\ idx' = idx + 1
                /\ pc' = "for"
                /\ Commit(Cur)
           ELSE \E p \in Plans(comp, current_round) :
                  LET current_messages ==
                          GetMessagesForSpecificDest(dict, comp, current_round)
                      contents == [i \in 1..Len(current_messages) |->
                                      current_messages[i].content]
                      s1 == [Cur EXCEPT
                               !.dict = ClearKey(@, comp),
                               !.received_msg_count[comp] = @ + Len(current_messages)]
                      s2 == ShouldCollapse(s1, comp, IntRound(current_round), p.coll)
                      returned(s) ==
                          /\ Commit(s)
                          /\ pc' = IF s.crashed THEN "crashed" ELSE "for"
                          /\ idx' = IF s.crashed THEN idx ELSE idx + 1
                          /\ UNCHANGED all_terminated
                  IN  returned(RunAlgorithm(s2, comp, "mainAlgorithm", current_round,
                                            contents, p))
    /\ UNCHANGED <<network, corruption, current_round, popped>>

\* maybe_collapse_randomly rewriting the state of every node: the selected ones
\* collapse, the others are set active
MaybeCollapseRandomlyReviving(s, selected) ==
    IF ~network.collapse_declared THEN Raise(s)
    ELSE IF network.overall_collapse_percent <= 0 THEN s
    ELSE [s EXCEPT !.state = [n \in DOMAIN @ |-> IF n \in selected THEN COLLAPSED ELSE ACTIVE],
                   !.collapsed_nodes = @ \cup selected]

\* CollapseConfig.maybe_collapse_randomly(network_dict), selected being the
\* random.sample of the candidates; the size of the sample is
\* min(len(candidates), np.random.poisson(..), remaining_to_collapse)
MaybeCollapseRandomly(s, selected) ==
    IF ~network.collapse_declared THEN Raise(s)
    ELSE [s EXCEPT !.state = [n \in DOMAIN @ |-> IF n \in selected THEN COLLAPSED ELSE @[n]],
                   !.collapsed_nodes = @ \cup selected]

\* the samples of a maybe_collapse_randomly whose candidates are all the computers it
\* has not collapsed itself, whatever their state
RandomSamplesOfAnyState(s) ==
    LET candidates == {n \in Ids : n \notin s.collapsed_nodes}
        target_collapse_count == (NumComputers * network.overall_collapse_percent) \div 4
        remaining_to_collapse == target_collapse_count - Cardinality(s.collapsed_nodes)
    IN  IF NumComputers = 0 \/ network.overall_collapse_percent <= 0 THEN {{}}
        ELSE IF candidates = {} THEN {{}}
        ELSE IF remaining_to_collapse <= 0 THEN {{}}
        ELSE {sel \in SUBSET candidates :
                 Cardinality(sel) <= Min(Cardinality(candidates), remaining_to_collapse)}

\* the samples of a maybe_collapse_randomly that does not cap the sample at
\* remaining_to_collapse
RandomSamplesUncapped(s) ==
    LET candidates == {n \in Ids : s.state[n] = ACTIVE /\ n \notin s.collapsed_nodes}
    IN  IF NumComputers = 0 \/ network.overall_collapse_percent <= 0 THEN {{}}
        ELSE SUBSET candidates

\* the samples maybe_collapse_randomly can draw; overall_collapse_percent is in quarters
RandomSamples(s) ==
    LET total_nodes == NumComputers
        candidates == {n \in Ids : s.state[n] = ACTIVE /\ n \notin s.collapsed_nodes}
        target_collapse_count == (total_nodes * network.overall_collapse_percent) \div 4
        remaining_to_collapse == target_collapse_count - Cardinality(s.collapsed_nodes)
    IN  IF total_nodes = 0 \/ network.overall_collapse_percent <= 0 THEN {{}}
        ELSE IF candidates = {} THEN {{}}
        ELSE IF remaining_to_collapse <= 0 THEN {{}}
        ELSE {sel \in SUBSET candidates :
                 Cardinality(sel) <= Min(Cardinality(candidates), remaining_to_collapse)}

\* sync_run: the end of a round: the random collapse, the round count and the cap
SyncRoundEnd ==
    /\ pc = "for"
    /\ idx > NumComputers
    /\ \E selected \in RandomSamples(Cur) :
          LET s == MaybeCollapseRandomly(Cur, selected)
          IN  /\ Commit(s)
              /\ current_round' = IF s.crashed THEN current_round ELSE current_round + 1
              /\ pc' = IF s.crashed THEN "crashed"
                       ELSE IF current_round + 1 > NUMBER_OF_ROUNDS THEN "done"
                       ELSE "while"
    /\ UNCHANGED <<network, corruption, idx, all_terminated, popped>>

-----------------------------------------------------------------------------
(* Topologies (initializationModule.py): the builder returns a connected   *)
(* graph on the sequential ids 0..N-1; neighbour lists are in id order.    *)

\* the networks of the model have NumNodes computers
NumNodes == 3

Pairs(N) == {e \in (0..N - 1) \X (0..N - 1) : e[1] < e[2]}

Neighbours(E, n) == {e[2] : e \in {x \in E : x[1] = n}} \cup {e[1] : e \in {x \in E : x[2] = n}}

RECURSIVE Reach(_, _)
\* the nodes reachable from the set seen
Reach(E, seen) ==
    LET next == seen \cup UNION {Neighbours(E, n) : n \in seen}
    IN  IF next = seen THEN seen ELSE Reach(E, next)

\* Initialization.is_connected
IsConnected(E, N) == Reach(E, {0}) = 0..N - 1

\* sorted(list(S)): position i holds the element with i - 1 smaller ones
SortedSeq(S) ==
    [i \in 1..Cardinality(S) |-> CHOOSE x \in S : Cardinality({y \in S : y < x}) = i - 1]

\* create_line_topology
LineEdges(N) == {e \in Pairs(N) : e[2] = e[1] + 1}

\* create_clique_topology
CliqueEdges(N) == Pairs(N)

\* every graph create_connected_computers can return
ConnectedGraphs(N) == {E \in SUBSET Pairs(N) : IsConnected(E, N)}

\* the profile of a plugin that sends nothing and never terminates
QuietPlugin == [ops |-> {"none"}, terms |-> {"none"}, payloads |-> {}, sent_times |-> {None}]

\* Initialization.__init__: a network of N computers with edges E and the given root,
\* sync discipline, no fault configuration
Network(N, E, root) ==
    [sync |-> "Sync", delay_type |-> "Constant",
     connected_computers |-> [i \in 1..N |-> i - 1],
     connectedEdges |-> [n \in 0..N - 1 |-> SortedSeq(Neighbours(E, n))],
     is_root |-> [n \in 0..N - 1 |-> n = root],
     topologyType |-> "Custom",
     algorithm |-> "any", missing |-> {}, collapse_declared |-> TRUE, node_configs |-> <<>>,
     overall_collapse_percent |-> 0, unordered_edges |-> {}, edge_delay |-> 1,
     k |-> 0, sender |-> 0, plugin |-> QuietPlugin]

\* no callback yet
NoCall == [node |-> None, fn |-> "none", time |-> None, entry_state |-> ACTIVE,
           payloads |-> <<>>]

\* corrupt_message not called yet
NoCorruption ==
    [called |-> FALSE, content |-> NoneContent, info |-> NoInfo, d |-> NoDraws,
     before |-> NoStats, result |-> NoneContent]

\* the computers, the queue and the bookkeeping of a network as they are created
Fresh(net) ==
    /\ network = net
    /\ state = [n \in Range(net.connected_computers) |-> ACTIVE]
    /\ sent_msg_count = [n \in Range(net.connected_computers) |-> 0]
    /\ received_msg_count = [n \in Range(net.connected_computers) |-> 0]
    /\ heap = <<>>
    /\ counter = 0
    /\ dict = <<>>
    /\ last_arrival_time = <<>>
    /\ collapsed_nodes = {}
    /\ corruption_stats = NoStats
    /\ idx = 1
    /\ current_round = 0
    /\ all_terminated = Len(net.connected_computers)
    /\ fields = [n \in Range(net.connected_computers) |-> NoFields]
    /\ popped = <<>>
    /\ lastCall = NoCall
    /\ delivered = <<>>
    /\ pushes = <<>>
    /\ corruption = NoCorruption

\* the state of a freshly built network, before the run
Start(net) == Fresh(net) /\ pc = "init"

-----------------------------------------------------------------------------
(* The heap on its own: any sequence of CustomMinHeap.push and pop.        *)

\* CustomMinHeap.push of a message with any arrival time
HeapPushOp ==
    /\ counter < MaxPush
    /\ \E t \in 0..MaxTime :
          heap' = MinHeapPush(heap, counter, Message(0, 1, t, StrContent(<<counter>>)))
    /\ counter' = counter + 1
    /\ popped' = <<>>
    /\ UNCHANGED <<network, corruption, state, sent_msg_count, received_msg_count, dict,
                   last_arrival_time, collapsed_nodes, corruption_stats, pc, idx,
                   current_round, all_terminated, fields, lastCall, delivered, pushes>>

\* CustomMinHeap.pop
HeapPopOp ==
    /\ ~MinHeapEmpty(heap)
    /\ heap' = HeapPopRest(heap)
    /\ popped' = Append(popped, HeapPopItem(heap))
    /\ UNCHANGED <<network, corruption, state, sent_msg_count, received_msg_count, counter, dict,
                   last_arrival_time, collapsed_nodes, corruption_stats, pc, idx,
                   current_round, all_terminated, fields, lastCall, delivered, pushes>>

InitHeap == Start([Network(2, LineEdges(2), 0) EXCEPT !.sync = "Async"])

NextHeap == HeapPushOp \/ HeapPopOp

SpecHeap == InitHeap /\ [][NextHeap]_vars

\* the entries held by a heap
Held(h) == Range(h)

\* (arrival time, push order) of entry a comes before that of entry b
Before(a, b) == a[1] < b[1] \/ (a[1] = b[1] /\ a[2] < b[2])

\* C1: every pop returns a message whose arrival time is the minimum among the
\* messages held, the first pushed among those with that arrival time; so the
\* entries popped in a row come out in non-decreasing arrival time, ties in push order
PopReturnsEarliest ==
    /\ \A i \in DOMAIN popped : \A e \in Held(heap) : Before(popped[i], e)
    /\ \A i, j \in DOMAIN popped : i < j => Before(popped[i], popped[j])

\* C1 witness: two messages with the same arrival time were popped in a row while a
\* third message is still held
PopTieReached ==
    /\ Len(popped) >= 2
    /\ popped[1][1] = popped[2][1]
    /\ heap # <<>>

-----------------------------------------------------------------------------
(* Runs of the engine with an arbitrary plugin, under both disciplines and  *)
(* the fault configurations an algorithm module can declare.               *)

\* one entry of CollapseConfig.node_configs
NodeConfig(round, probability, received, sent) ==
    [round |-> round, round_reoccurrence |-> 1, probability |-> probability,
     received_msg_count |-> received, sent_msg_count |-> sent]

\* the collapse_config declarations of the runs: none declared (collapse_config stays
\* None), an empty one, a received-count trigger, a sent-count trigger with
\* probability 0.5, a round trigger, and a global random-collapse percentage of 50%
CollapseDeclarations ==
    {[declared |-> FALSE, node_configs |-> <<>>, overall |-> 0],
     [declared |-> TRUE, node_configs |-> <<>>, overall |-> 0],
     [declared |-> TRUE, node_configs |-> <<>>, overall |-> 2],
     [declared |-> TRUE, node_configs |-> (1 :> NodeConfig(None, 4, 1, None)), overall |-> 0],
     [declared |-> TRUE, node_configs |-> (0 :> NodeConfig(None, 2, None, 1)), overall |-> 0],
     [declared |-> TRUE, node_configs |-> (1 :> NodeConfig(1, 4, None, None)), overall |-> 0]}

\* a payload sent without fault configuration, and one sent with a loss probability
\* of 0.5
PlainPayload == <<StrContent(<<1>>), NoInfo>>
LossyPayload == <<StrContent(<<1>>), [present |-> TRUE, loss |-> 2, corruption |-> None,
                                      field |-> "absent"]>>

\* an arbitrary plugin: any of the operations in any callback, sent with no sent_time
\* or with the time of the callback
AnyPlugin(payloads) ==
    [ops |-> {"none", "send", "send_to_all"}, terms |-> {"none", "first", "last"},
     payloads |-> payloads, sent_times |-> {None}]

\* the disciplines and delay models, with the edges the reorder policy marked unordered
Modes ==
    {[sync |-> "Sync", delay_type |-> "Constant", unordered |-> {}],
     [sync |-> "Async", delay_type |-> "Constant", unordered |-> {}],
     [sync |-> "Async", delay_type |-> "Random", unordered |-> {}],
     [sync |-> "Async", delay_type |-> "Random", unordered |-> {<<0, 1>>}]}

\* the runs, on the network of two connected computers 0 and 1: every mode with every
\* collapse declaration and plain payloads, and every mode with an empty collapse
\* declaration and lossy payloads
Networks ==
    {[Network(2, LineEdges(2), 0) EXCEPT
        !.sync = m.sync, !.delay_type = m.delay_type, !.unordered_edges = m.unordered,
        !.collapse_declared = f[1].declared, !.node_configs = f[1].node_configs,
        !.overall_collapse_percent = f[1].overall,
        !.plugin = AnyPlugin({f[2]})] :
        m \in Modes,
        f \in (CollapseDeclarations \X {PlainPayload})
               \cup {<<[declared |-> TRUE, node_configs |-> <<>>, overall |-> 0],
                       LossyPayload>>}}

Init == \E net \in Networks : Start(net)

Next ==
    \/ RunInit
    \/ AsyncDeliver
    \/ AsyncFinish
    \/ SyncWhile
    \/ SyncNode
    \/ SyncRoundEnd

Spec == Init /\ [][Next]_vars

-----------------------------------------------------------------------------
(* Properties of the runs. *)

\* the run has stopped: it completed or an exception ended it
Stopped == pc \in {"done", "crashed"}

\* C2: on every directed edge that is not marked unordered, the arrival times of the
\* messages enqueued one after the other are non-decreasing, under every delay model
\* and whatever sent_time the sends are given
EdgeArrivalsMonotone ==
    \A i, j \in DOMAIN pushes :
        (/\ i < j
         /\ pushes[i].source_id = pushes[j].source_id
         /\ pushes[i].dest_id = pushes[j].dest_id
         /\ IsEdgeOrdered(pushes[i].source_id, pushes[i].dest_id))
        => pushes[i].arrival_time <= pushes[j].arrival_time

\* C3: the step callback is never invoked for a node that is already Collapsed or
\* Terminated when the call starts, in async delivery and in sync rounds alike
StepOnlyOnActive ==
    lastCall.fn = "mainAlgorithm" => lastCall.entry_state = ACTIVE

\* C4: no step of a run moves a node that is Collapsed or Terminated back to Active
NeverActiveAgain ==
    [][\A n \in DOMAIN state : state[n] # ACTIVE => state'[n] # ACTIVE]_vars

\* C4 witness: the global random-collapse step has collapsed one node and another node
\* has terminated, and the run went on to a later round
AbsorbedReached ==
    /\ network.sync = "Sync"
    /\ network.overall_collapse_percent > 0
    /\ current_round >= 2
    /\ collapsed_nodes # {}
    /\ \E n \in DOMAIN state : state[n] = TERMINATED
    /\ \E n \in DOMAIN state : state[n] = COLLAPSED

\* C5: a sync run that finishes without the round counter having exceeded the maximum
\* round count leaves every node Terminated or Collapsed
SyncFinishBelowCap ==
    (network.sync = "Sync" /\ pc = "done" /\ current_round <= NUMBER_OF_ROUNDS)
    => \A n \in DOMAIN state : state[n] \in {TERMINATED, COLLAPSED}

\* C5 witness: a sync run finished below the cap after a round in which a step
\* callback ran, one node Terminated and the other Collapsed
SyncFinishBelowCapReached ==
    /\ network.sync = "Sync"
    /\ pc = "done"
    /\ current_round <= NUMBER_OF_ROUNDS
    /\ lastCall.fn = "mainAlgorithm"
    /\ \E n \in DOMAIN state : state[n] = TERMINATED
    /\ \E n \in DOMAIN state : state[n] = COLLAPSED

\* C6: the sync run always finishes normally: no run of an algorithm whose callbacks
\* return is ended by an error, the round loop stops by termination or at the cap
SyncRunNeverAborts ==
    network.sync = "Sync" => pc # "crashed"

\* C8: the async run stops exactly when the time-ordered structure is empty: it
\* never stops while a message is still queued
AsyncStopsOnlyWhenEmpty ==
    (network.sync = "Async" /\ Stopped) => MinHeapEmpty(heap)

\* the nodes configured to collapse with probability 1 once they have received a
\* given number of messages
ReceiptTriggered ==
    {n \in DOMAIN network.node_configs :
        /\ network.node_configs[n].received_msg_count # None
        /\ network.node_configs[n].probability = 4}

\* node n has received the number of messages of its trigger
TriggerReached(n) ==
    received_msg_count[n] >= network.node_configs[n].received_msg_count

\* C11: a node configured to collapse with probability 1 at its k-th received message
\* is Collapsed as soon as it has received k messages, and from then on its received
\* count never grows and no later message is handed to its step callback
CollapsedAtKthReceipt ==
    /\ [](\A n \in ReceiptTriggered : TriggerReached(n) => state[n] = COLLAPSED)
    /\ [][\A n \in ReceiptTriggered :
            TriggerReached(n) =>
                /\ received_msg_count'[n] = received_msg_count[n]
                /\ \A i \in DOMAIN delivered' :
                      i > Len(delivered) => delivered'[i].node # n]_vars

\* the message the next iteration of the async loop pops
NextMessage == HeapPopItem(heap)[3]

\* a step of the async loop: a message delivered to a destination that is not Active
\* leaves the node's received count and state as they were and invokes no step
\* callback; for an Active destination the received count is incremented first, then
\* the collapse evaluation runs (so a trigger on that count fires), then the step
\* callback is invoked with the arrival time and the payload of the message
DeliveredInOrder ==
    LET n == NextMessage.dest_id
    IN  IF state[n] # ACTIVE
        THEN /\ received_msg_count'[n] = received_msg_count[n]
             /\ state'[n] = state[n]
             /\ lastCall' = lastCall
             /\ delivered' = delivered
        ELSE /\ received_msg_count'[n] = received_msg_count[n] + 1
             /\ lastCall'.node = n
             /\ lastCall'.fn = "mainAlgorithm"
             /\ lastCall'.time = NextMessage.arrival_time
             /\ lastCall'.payloads = <<NextMessage.content>>
             /\ Len(delivered') = Len(delivered) + 1
             /\ (n \in ReceiptTriggered =>
                    (lastCall'.entry_state = COLLAPSED <=>
                        received_msg_count[n] + 1 >=
                            network.node_configs[n].received_msg_count))

\* C18: deliver(message) for a destination that is not Active changes nothing about
\* that node and invokes no step callback; for an Active destination the received
\* count is incremented, then the collapse evaluation runs, then the step callback is
\* invoked with the message's arrival time and payload
DeliverCountsCollapsesSteps ==
    [][(pc = "loop" /\ ~MinHeapEmpty(heap)) => DeliveredInOrder]_vars

\* the deliveries of the runs whose collapse configuration is declared and has no
\* round trigger
DeliverInOrderIfDeclared ==
    [][(/\ pc = "loop" /\ ~MinHeapEmpty(heap)
        /\ network.collapse_declared
        /\ \A n \in DOMAIN network.node_configs : network.node_configs[n].round = None)
       => DeliveredInOrder]_vars

\* the messages pushed for node n, and the payloads handed to its step callback
PushedTo(n) == {j \in DOMAIN pushes : pushes[j].dest_id = n}
HandedTo(n) == {i \in DOMAIN delivered : delivered[i].node = n}

\* C20: every message that enters an ordering structure is consumed exactly once, in
\* both disciplines: it is handed to a step callback at most once, and once consumed
\* it is no longer held by the structure (the messages handed over and the messages
\* held together are at most the messages pushed)
ConsumedExactlyOnce ==
    /\ \A n \in Ids : Cardinality(HandedTo(n)) <= Cardinality(PushedTo(n))
    /\ Len(delivered) + Len(heap) + DictSize(dict) <= Len(pushes)

\* the async discipline consumes every message once
ConsumedOnceAsync == network.sync = "Async" => ConsumedExactlyOnce

\* the sync discipline hands no message over twice
HandedOnceSync ==
    network.sync = "Sync" =>
        \A n \in Ids : Cardinality(HandedTo(n)) <= Cardinality(PushedTo(n))

-----------------------------------------------------------------------------
(* Flooding: algorithms/sync_BFS.py under the sync discipline, on every     *)
(* connected graph of NumNodes computers with any root.  The module        *)
(* declares no collapse_config; the runs in which an empty one is declared *)
(* are included.                                                           *)

InitBfs ==
    \E E \in ConnectedGraphs(NumNodes), root \in 0..NumNodes - 1, declared \in BOOLEAN :
        Start([Network(NumNodes, E, root) EXCEPT
                  !.algorithm = "sync_BFS", !.collapse_declared = declared])

NextBfs ==
    \/ RunInit
    \/ SyncWhile
    \/ SyncNode
    \/ SyncRoundEnd

SpecBfs == InitBfs /\ [][NextBfs]_vars

RECURSIVE EccFrom(_, _)
\* the number of hops needed to reach every node from the set seen, d hops done
EccFrom(seen, d) ==
    LET next == seen \cup UNION {Range(network.connectedEdges[n]) : n \in seen}
    IN  IF next = seen THEN d ELSE EccFrom(next, d + 1)

\* the diameter of the network's graph
Diameter ==
    LET ecc == {EccFrom({n}, 0) : n \in Ids}
    IN  CHOOSE d \in ecc : \A e \in ecc : e <= d

\* C7: with no faults configured the flooding run on a connected graph finishes, with
\* every node Terminated, and no step callback runs after the first diameter + 1
\* rounds (the rounds 0..diameter)
FloodingFinishes ==
    /\ pc # "crashed"
    /\ lastCall.fn = "mainAlgorithm" => lastCall.time <= Diameter
    /\ pc = "done" => \A n \in DOMAIN state : state[n] = TERMINATED

\* the same, for the runs whose algorithm module declares a collapse_config
FloodingFinishesIfDeclared == network.collapse_declared => FloodingFinishes

RECURSIVE HopsFrom(_, _, _)
\* the number of hops from the set seen to node n, d hops done
HopsFrom(seen, d, n) ==
    IF n \in seen THEN d
    ELSE HopsFrom(seen \cup UNION {Range(network.connectedEdges[m]) : m \in seen},
                  d + 1, n)

\* the root of the network
Root == CHOOSE r \in Ids : network.is_root[r]

\* the run has finished with every node Terminated at its hop distance from the root
BfsDistancesRight ==
    pc = "done" =>
        \A n \in Ids :
            /\ state[n] = TERMINATED
            /\ fields[n].distance = HopsFrom({Root}, 0, n)

\* C15: the sync run of the BFS algorithm on a connected graph, the algorithm module
\* declaring no collapse configuration, is not ended by an error and finishes with
\* every node Terminated and every node's distance its hop distance from the root
BfsCompletesUndeclared ==
    ~network.collapse_declared => (pc # "crashed" /\ BfsDistancesRight)

-----------------------------------------------------------------------------
(* The fault injector on its own: corrupt_message applied to any payload   *)
(* with any corruption_info and any outcome of the random draws.           *)

\* corrupt_message is applied MaxCalls times
MaxCalls == 2

\* the payloads: a string, and dicts with a field "value" holding an integer or a float
Contents == {StrContent(<<1>>), DictContent(<<1>>), DictContent(<<5>>), FloatContent(<<1>>)}

\* the corruption_info dicts: probabilities absent, 0, 0.5 or 1
Infos ==
    [present : {TRUE}, loss : {None, 0, 2, 4}, corruption : {None, 0, 2, 4},
     field : {"absent", "_RANDOM", "replace"}]

\* one call of corrupt_message(message_content, corruption_info)
CorruptStep ==
    /\ corruption_stats.total_messages_processed < MaxCalls
    /\ \E content \in Contents, info \in Infos :
          \E d \in DrawsFor(0, content, info) :
             LET r == CorruptMessage(content, info, corruption_stats, d)
             IN  /\ corruption' = [called |-> TRUE, content |-> content, info |-> info,
                                   d |-> d, before |-> corruption_stats,
                                   result |-> r.content]
                 /\ corruption_stats' = r.stats
    /\ UNCHANGED <<network, state, sent_msg_count, received_msg_count, heap, counter, dict,
                   last_arrival_time, collapsed_nodes, pc, idx, current_round,
                   all_terminated, fields, popped, lastCall, delivered, pushes>>

InitCorrupt == Start(Network(2, LineEdges(2), 0))

NextCorrupt == CorruptStep

SpecCorrupt == InitCorrupt /\ [][NextCorrupt]_vars

\* C9: with loss probability 1 and corruption probability 1 the message is dropped
\* and the corruption transform is not applied: the payload returned is None, the loss
\* is recorded and no corruption is recorded
LossGateFirst ==
    (corruption.called /\ corruption.info.loss = 4 /\ corruption.info.corruption = 4)
    => /\ corruption.result = NoneContent
       /\ corruption_stats.messages_lost = corruption.before.messages_lost + 1
       /\ corruption_stats.messages_corrupted = corruption.before.messages_corrupted
       /\ corruption_stats.corruption_attempts = corruption.before.corruption_attempts
       /\ corruption_stats.field_corruptions = corruption.before.field_corruptions

\* C9 witness: a dict payload whose field is configured for corruption went through
\* corrupt_message with loss probability 1 and corruption probability 1, after a call
\* that did corrupt a payload
LossGateFirstReached ==
    /\ corruption.called
    /\ corruption.info.loss = 4
    /\ corruption.info.corruption = 4
    /\ corruption.content.kind = "dict"
    /\ corruption.info.field = "_RANDOM"
    /\ corruption.before.messages_corrupted = 1

-----------------------------------------------------------------------------
(* The ping-pong scenario: algorithms/reorder_test/reorder_pingpong_test.py *)
(* on the line of two computers, async discipline, constant delay 1.  One  *)
(* node sends k numbered messages to the other in its init.                *)

\* the sender sends at most MaxK messages
MaxK == 10

InitPing ==
    \E sender \in {0, 1}, k \in 1..MaxK, u \in {{}, {<<0, 1>>}} :
        Start([Network(2, LineEdges(2), 0) EXCEPT
                  !.sync = "Async", !.delay_type = "Constant", !.edge_delay = 1,
                  !.algorithm = "pingpong", !.sender = sender, !.k = k,
                  !.unordered_edges = u])

NextPing ==
    \/ RunInit
    \/ AsyncDeliver
    \/ AsyncFinish

SpecPing == InitPing /\ [][NextPing]_vars

\* C10: the step callback of the destination receives the payloads in the order they
\* were sent, none twice, and when the run has finished it has received all k
PingDeliveredInOrder ==
    /\ Len(delivered) <= network.k
    /\ \A i \in DOMAIN delivered :
          /\ delivered[i].node = 1 - network.sender
          /\ delivered[i].content = StrContent(<<i - 1>>)
    /\ pc # "crashed"
    /\ pc = "done" => Len(delivered) = network.k

\* C10 witness: the run finished after the ten messages of the scenario were delivered
PingAllDelivered ==
    /\ pc = "done"
    /\ network.k = 10
    /\ network.sender = 1
    /\ Len(delivered) = 10
    /\ fields[0].counter = 10

-----------------------------------------------------------------------------
(* The sync scenarios: algorithms/broadcastAlgorithm.py and                *)
(* tests/system/testAlgorithmSimple.py under the sync discipline, on every *)
(* connected graph of up to NumNodes computers and on the cliques of up to *)
(* CliqueNodes computers, with any root.  broadcastAlgorithm.py declares   *)
(* no collapse_config (the runs in which an empty one is declared are      *)
(* included); testAlgorithmSimple.py declares an empty one.                *)

\* the cliques of the scenarios have up to CliqueNodes computers
CliqueNodes == 5

\* the graphs of the scenarios, as pairs of a node count and an edge set
ScenarioGraphs ==
    UNION {{<<N, E>> : E \in ConnectedGraphs(N)} : N \in 2..NumNodes}
    \cup {<<N, CliqueEdges(N)>> : N \in 2..CliqueNodes}

\* the algorithm modules of the sync scenarios, with what they declare
SyncModules ==
    {[algorithm |-> "broadcastAlgorithm", declared |-> FALSE],
     [algorithm |-> "broadcastAlgorithm", declared |-> TRUE],
     [algorithm |-> "testAlgorithmSimple", declared |-> TRUE]}

InitSync ==
    \E g \in ScenarioGraphs, m \in SyncModules :
        \E root \in 0..g[1] - 1 :
            Start([Network(g[1], g[2], root) EXCEPT
                      !.algorithm = m.algorithm, !.collapse_declared = m.declared])

NextSync ==
    \/ RunInit
    \/ SyncWhile
    \/ SyncNode
    \/ SyncRoundEnd

SpecSync == InitSync /\ [][NextSync]_vars

\* the run is the broadcast scenario: the clique of five computers 0..4, root 0
BroadcastScenario ==
    /\ network.algorithm = "broadcastAlgorithm"
    /\ NumComputers = 5
    /\ \A n \in Ids : Len(network.connectedEdges[n]) = 4
    /\ network.is_root[0]

\* C12: in the broadcast scenario the run is not ended by an error, once round 1 is
\* over every non-root node has sent exactly 1 message and received exactly 1, and
\* once round 2 is over or the run has finished every node is Terminated
BroadcastOneEach ==
    BroadcastScenario =>
        /\ pc # "crashed"
        /\ current_round >= 2 =>
              \A n \in Ids : ~network.is_root[n] =>
                  sent_msg_count[n] = 1 /\ received_msg_count[n] = 1
        /\ (current_round >= 3 \/ pc = "done") =>
              \A n \in Ids : state[n] = TERMINATED

\* the number of payloads handed to the step callback of node n that carry the
\* identifier of the sender a
HandedFrom(a, n) ==
    Cardinality({i \in DOMAIN delivered :
                    delivered[i].node = n /\ delivered[i].content = LeaderContent(a, a)})

\* C13: in a sync run with no faults in which every node calls send_to_all once at
\* round 0 and terminates at round 2, the run ends with every node Terminated and with
\* its sent count and its received count equal to its degree; every message sent in
\* round 0 is handed over in round 1, exactly once
SimpleCountsEqualDegree ==
    network.algorithm = "testAlgorithmSimple" =>
        /\ pc # "crashed"
        /\ \A i \in DOMAIN delivered : delivered[i].time = 1
        /\ pc = "done" =>
              \A n \in Ids :
                  /\ state[n] = TERMINATED
                  /\ sent_msg_count[n] = Len(network.connectedEdges[n])
                  /\ received_msg_count[n] = Len(network.connectedEdges[n])
                  /\ \A a \in Ids :
                        HandedFrom(a, n) =
                            IF a \in Range(network.connectedEdges[n]) THEN 1 ELSE 0

\* C13 witness: the run on the clique of five computers has finished, each computer
\* having sent 4 messages and received 4
SimpleCliqueFinished ==
    /\ network.algorithm = "testAlgorithmSimple"
    /\ pc = "done"
    /\ NumComputers = 5
    /\ \A n \in Ids : sent_msg_count[n] = 4 /\ received_msg_count[n] = 4
    /\ Len(delivered) = 20

-----------------------------------------------------------------------------
(* Max-identifier flooding: tests/system/testAlgorithmSimpleAsync.py under  *)
(* the async discipline with a constant delay, on the cliques of up to     *)
(* CliqueNodes computers.  The module declares an empty collapse_config.   *)

\* the configured constant delay is one of 1..MaxDelay
MaxDelay == 2

InitLeader ==
    \E N \in 2..CliqueNodes, delay \in 1..MaxDelay :
        Start([Network(N, CliqueEdges(N), 0) EXCEPT
                  !.sync = "Async", !.delay_type = "Constant", !.edge_delay = delay,
                  !.algorithm = "testAlgorithmSimpleAsync"])

NextLeader ==
    \/ RunInit
    \/ AsyncDeliver
    \/ AsyncFinish

SpecLeader == InitLeader /\ [][NextLeader]_vars

\* C14: the async run of the max-identifier flooding on a clique with constant delay
\* and no faults is not ended by an error and finishes with every node Terminated,
\* every node's leader the maximum identifier, and every node having received at
\* least as many messages as it has neighbours
MaxIdLeaderElected ==
    /\ pc # "crashed"
    /\ pc = "done" =>
          \A n \in Ids :
              /\ state[n] = TERMINATED
              /\ fields[n].leader = NumComputers - 1
              /\ received_msg_count[n] >= Len(network.connectedEdges[n])

\* C14 witness: the run on the clique of five computers has finished after node 0
\* learnt larger leaders and broadcast them again
LeaderCliqueFinished ==
    /\ pc = "done"
    /\ NumComputers = 5
    /\ fields[0].leader = 4
    /\ sent_msg_count[0] > 4
    /\ received_msg_count[0] = 4

-----------------------------------------------------------------------------
(* The topology builder (initializationModule.py): the generated kinds on  *)
(* sequential ids 0..N-1.  ce is the connectedEdges list of every          *)
(* computer; with sequential ids the index of a computer in                *)
(* connected_computers is its id.                                          *)

\* UnionFind.__init__
UnionFindInit(size) ==
    [parent |-> [i \in 0..size - 1 |-> i], rank |-> [i \in 0..size - 1 |-> 1]]

RECURSIVE UnionFindFind(_, _)
\* UnionFind.find: the root found and the structure after the path compression
UnionFindFind(uf, node) ==
    IF uf.parent[node] # node
    THEN LET r == UnionFindFind(uf, uf.parent[node])
         IN  [root |-> r.root, uf |-> [r.uf EXCEPT !.parent[node] = r.root]]
    ELSE [root |-> node, uf |-> uf]

\* UnionFind.union
UnionFindUnion(uf, node1, node2) ==
    LET f1 == UnionFindFind(uf, node1)
        f2 == UnionFindFind(f1.uf, node2)
        root1 == f1.root
        root2 == f2.root
        u == f2.uf
    IN  IF root1 # root2
        THEN IF u.rank[root1] > u.rank[root2]
             THEN [u EXCEPT !.parent[root2] = root1]
             ELSE IF u.rank[root1] < u.rank[root2]
             THEN [u EXCEPT !.parent[root1] = root2]
             ELSE [u EXCEPT !.parent[root2] = root1, !.rank[root1] = @ + 1]
        ELSE u

\* is_connected: the two loops, from the structure uf at computer i and position k of
\* its neighbour list
UnionNeighbours(ce, N) ==
    LET UnionFinds == [parent : [0..N - 1 -> 0..N - 1], rank : [0..N - 1 -> Nat]]
        loop[uf \in UnionFinds, i \in Nat, k \in Nat] ==
            IF i >= N THEN uf
            ELSE IF k > Len(ce[i]) THEN loop[uf, i + 1, 1]
            ELSE loop[UnionFindUnion(uf, i, ce[i][k]), i, k + 1]
    IN  loop[UnionFindInit(N), 0, 1]

\* a connectivity test that only asks every computer to have a neighbour
EveryoneHasNeighbour(ce, N) == \A i \in 0..N - 1 : ce[i] # <<>>

\* Initialization.is_connected
UnionFindConnected(ce, N) ==
    LET uf == UnionNeighbours(ce, N)
        root == UnionFindFind(uf, 0).root
    IN  \A i \in 0..N - 1 : UnionFindFind(uf, i).root = root

\* u.connectedEdges.append(v); v.connectedEdges.append(u)
Connect(ce, u, v) == [[ce EXCEPT ![u] = Append(@, v)] EXCEPT ![v] = Append(@, u)]

\* list(set(comp.connectedEdges)) for every computer
Deduplicated(ce) == [n \in DOMAIN ce |-> SortedSeq(Range(ce[n]))]

\* create_line_topology: the loop over i appends to computer n first n - 1 (in the
\* iteration i = n - 1), then n + 1 (in the iteration i = n)
CreateLineTopology(ce, N) ==
    [n \in 0..N - 1 |->
        ce[n] \o (IF n > 0 THEN <<n - 1>> ELSE <<>>)
              \o (IF n < N - 1 THEN <<n + 1>> ELSE <<>>)]

\* create_clique_topology: the loops over i < j append to computer n every i < n, then
\* every j > n; the duplicates are removed at the end
CreateCliqueTopology(ce, N) ==
    Deduplicated([n \in 0..N - 1 |-> ce[n] \o SortedSeq((0..N - 1) \ {n})])

\* create_star_topology: the hub is the root, or the first computer if there is none;
\* the hub is appended every other computer in turn, and every other computer the hub
CreateStarTopology(ce, N, is_root) ==
    LET roots == {n \in 0..N - 1 : is_root[n]}
        root == IF roots # {} THEN CHOOSE r \in roots : \A q \in roots : r <= q ELSE 0
    IN  [n \in 0..N - 1 |->
            ce[n] \o (IF n = root THEN SortedSeq((0..N - 1) \ {root}) ELSE <<root>>)]

RECURSIVE TreeFor(_, _, _, _)
\* create_tree_topology: "while len(extra_list) > 2: for i in extra_list", the list
\* iterator being at position k (from 0) of the list it iterates and removes from
TreeFor(ce, prufer_sequence, extra_list, k) ==
    IF Len(extra_list) <= 2 THEN [ce |-> ce, extra_list |-> extra_list]
    ELSE IF k >= Len(extra_list) THEN TreeFor(ce, prufer_sequence, extra_list, 0)
    ELSE LET i == extra_list[k + 1]
         IN  IF i \notin Range(prufer_sequence)
             THEN TreeFor(Connect(ce, i, prufer_sequence[1]), Tail(prufer_sequence),
                          SubSeq(extra_list, 1, k) \o
                              SubSeq(extra_list, k + 2, Len(extra_list)),
                          k + 1)
             ELSE TreeFor(ce, prufer_sequence, extra_list, k + 1)

\* create_tree_topology, prufer_sequence being the N - 2 random choices
CreateTreeTopology(ce, N, prufer_sequence) ==
    LET r == TreeFor(ce, prufer_sequence, [i \in 1..N |-> i - 1], 0)
    IN  IF Len(r.extra_list) = 2
        THEN Connect(r.ce, r.extra_list[1], r.extra_list[2])
        ELSE r.ce

\* int(math.log(x)) for 1 <= x <= 54
FloorLog(x) == IF x < 3 THEN 0 ELSE IF x < 8 THEN 1 ELSE IF x < 21 THEN 2 ELSE 3

\* the connected graphs create_random_topology enumerates for three computers
ThreeGraphs ==
    <<{<<0, 1>>, <<1, 2>>}, {<<0, 1>>, <<0, 2>>}, {<<0, 2>>, <<1, 2>>},
      {<<0, 1>>, <<1, 2>>, <<0, 2>>}>>

\* create_random_topology: chosen is the graph drawn for three computers, picks[n]
\* the neighbours sampled by computer n otherwise
CreateRandomTopology(ce, N, chosen, picks) ==
    IF N = 2 THEN Connect(ce, 0, 1)
    ELSE IF N = 3
    THEN [n \in 0..2 |->
             ce[n] \o SortedSeq(Neighbours(ThreeGraphs[chosen], n))]
    ELSE [n \in 0..N - 1 |->
             SortedSeq(Range(ce[n]) \cup picks[n] \cup {m \in 0..N - 1 : n \in picks[m]})]

\* the samples create_random_topology can draw for N computers
RandomPicks(N) ==
    LET most == 2 * FloorLog(N - 1)
    IN  [0..N - 1 -> {S \in SUBSET (0..N - 1) : Cardinality(S) \in 1..most}]

\* the computers of the generated topologies number up to BuildNodes, those of the
\* random-degree topology up to RandomNodes
BuildNodes == 5
RandomNodes == 4

\* the random draws of one call of the topology function
TopologyDraws(kind, N) ==
    CASE kind = "Tree" ->
            {[prufer_sequence |-> q, chosen |-> 1, picks |-> <<>>] :
                q \in [1..N - 2 -> 0..N - 1]}
      [] kind = "Random" /\ N = 3 ->
            {[prufer_sequence |-> <<>>, chosen |-> c, picks |-> <<>>] :
                c \in DOMAIN ThreeGraphs}
      [] kind = "Random" /\ N > 3 ->
            {[prufer_sequence |-> <<>>, chosen |-> 1, picks |-> f] :
                f \in {g \in RandomPicks(N) : \A n \in 0..N - 1 : n \notin g[n]}}
      [] OTHER -> {[prufer_sequence |-> <<>>, chosen |-> 1, picks |-> <<>>]}

\* topology_functions[self.topologyType]()
TopologyFunction(ce, N, kind, is_root, d) ==
    CASE kind = "Line" -> CreateLineTopology(ce, N)
      [] kind = "Clique" -> CreateCliqueTopology(ce, N)
      [] kind = "Tree" -> CreateTreeTopology(ce, N, d.prufer_sequence)
      [] kind = "Star" -> CreateStarTopology(ce, N, is_root)
      [] kind = "Random" -> CreateRandomTopology(ce, N, d.chosen, d.picks)

\* create_connected_computers: one iteration of "while not connected"; the network
\* is handed to the run once the loop has ended
CreateConnectedComputers ==
    /\ pc = "topology"
    /\ \E d \in TopologyDraws(network.topologyType, NumComputers) :
          LET ce == TopologyFunction(network.connectedEdges, NumComputers,
                                     network.topologyType, network.is_root, d)
          IN  /\ network' = [network EXCEPT !.connectedEdges = ce]
              /\ pc' = IF UnionFindConnected(ce, NumComputers) THEN "init" ELSE "topology"
    /\ UNCHANGED <<corruption, state, sent_msg_count, received_msg_count, heap, counter,
                   dict, last_arrival_time, collapsed_nodes, corruption_stats, idx,
                   current_round, all_terminated, fields, popped, lastCall, delivered,
                   pushes>>

\* every generated topology kind with the node counts of the model, and every root
InitTopology ==
    \E g \in ({"Line", "Clique", "Tree", "Star"} \X (2..BuildNodes))
                \cup ({"Random"} \X (2..RandomNodes)) :
        \E root \in 0..g[2] - 1 :
            /\ Fresh([Network(g[2], {}, root) EXCEPT !.topologyType = g[1]])
            /\ pc = "topology"

SpecTopology == InitTopology /\ [][CreateConnectedComputers]_vars

RECURSIVE ReachableFrom(_)
\* the computers reachable from the set seen along the adjacency lists
ReachableFrom(seen) ==
    LET next == seen \cup UNION {Range(network.connectedEdges[n]) : n \in seen}
    IN  IF next = seen THEN seen ELSE ReachableFrom(next)

\* C16: the graph the topology builder returns, for every generated kind and every
\* node count from 2, is connected: every node is reachable from every other node
BuiltGraphConnected ==
    pc # "topology" => \A n \in Ids : ReachableFrom({n}) = Ids

\* C16 witness: the builder returned a random-degree graph on four computers in which
\* computer 0 and computer 3 are not adjacent
RandomGraphBuilt ==
    /\ pc # "topology"
    /\ network.topologyType = "Random"
    /\ NumComputers = 4
    /\ 3 \notin Range(network.connectedEdges[0])

-----------------------------------------------------------------------------
(* The communication layer on its own: the calls a callback can make on    *)
(* the Communication object and on the computers, one call at a time, on   *)
(* the line of three computers 0 - 1 - 2, and the deliveries of the async  *)
(* run loop in between.                                                    *)

\* at most MaxSends calls of send_message get as far as the loss gate
MaxSends == 1

\* comm.send_message(source, dest, message_info, None, corruption_info) between any
\* two computers, with a loss probability of 0.5
SendCall ==
    /\ pc \in {"loop", "for"}
    /\ \E source \in Ids, pl \in {LossyPayload} :
          \E dest \in Ids \ {source}, d \in DrawsFor(source, pl[1], pl[2]) :
             LET returned(s) ==
                     /\ s.corruption_stats.total_messages_processed <= MaxSends
                     /\ Commit([s EXCEPT !.lastCall =
                                   [node |-> source, fn |-> "send_message", time |-> None,
                                    payloads |-> <<pl[1]>>, dest |-> dest]])
                     /\ pc' = IF s.crashed THEN "crashed" ELSE pc
             IN  returned(SendMessage(Cur, source, dest, pl[1], None, pl[2], d))
    /\ UNCHANGED <<network, corruption, idx, current_round, all_terminated, popped>>

\* comp.state = NodeState.TERMINATED or comp.collapse(), for any Active computer
StateCall ==
    /\ pc \in {"loop", "for"}
    /\ \E n \in Ids, value \in {TERMINATED, COLLAPSED} :
          /\ state[n] = ACTIVE
          /\ Commit(SetState(Cur, n, value))
    /\ UNCHANGED <<network, corruption, pc, idx, current_round, all_terminated, popped>>

InitSend ==
    \E sync \in {"Sync", "Async"} :
        /\ Fresh([Network(3, LineEdges(3), 0) EXCEPT !.sync = sync])
        /\ pc = IF sync = "Sync" THEN "for" ELSE "loop"

SpecSend == InitSend /\ [][SendCall \/ StateCall \/ AsyncDeliver]_vars

\* the call of send_message the step makes
SendCalled == lastCall' # lastCall /\ lastCall'.fn = "send_message"

\* C17: a send is a no-op when source and destination are not adjacent, or the source
\* is Collapsed, or the destination is not Active: the ordering structure, every
\* node's state and sent and received counts and the last-arrival times are left as
\* they were, and no error is raised
SendRefusedChangesNothing ==
    [][(/\ SendCalled
        /\ \/ lastCall'.dest \notin Range(network.connectedEdges[lastCall'.node])
           \/ state[lastCall'.node] = COLLAPSED
           \/ state[lastCall'.dest] # ACTIVE)
       => /\ UNCHANGED <<heap, counter, dict, state, sent_msg_count, received_msg_count,
                         last_arrival_time, pushes>>
          /\ pc' # "crashed"]_vars

\* C17 witness: the last call of send_message, made while a message was held by the
\* heap, was one between the two computers that are not adjacent
SendRefusedReached ==
    /\ lastCall.fn = "send_message"
    /\ lastCall.dest \notin Range(network.connectedEdges[lastCall.node])
    /\ heap # <<>>
    /\ delivered = <<>>

\* C19: a message dropped by the loss gate is not pushed into the ordering structure,
\* does not increment the sender's sent count and does not update the edge's
\* last-arrival time; and it is never delivered or counted as received: what is handed
\* to the step callbacks and counted are only messages that were pushed
LostNeverEnqueued ==
    /\ [][corruption_stats'.messages_lost > corruption_stats.messages_lost
           => UNCHANGED <<heap, counter, dict, sent_msg_count, received_msg_count,
                          last_arrival_time, pushes, delivered>>]_vars
    /\ [](/\ Len(delivered) + Len(heap) <= Len(pushes)
          /\ \A i \in DOMAIN delivered :
                \E j \in DOMAIN pushes :
                    /\ pushes[j].dest_id = delivered[i].node
                    /\ pushes[j].content = delivered[i].content
                    /\ pushes[j].arrival_time = delivered[i].time
          /\ \A n \in Ids :
                /\ received_msg_count[n] =
                      Cardinality({i \in DOMAIN delivered : delivered[i].node = n})
                /\ sent_msg_count[n] =
                      Cardinality({j \in DOMAIN pushes : pushes[j].source_id = n}))

\* C19 witness: the message of a send between two adjacent Active computers was
\* dropped by the loss gate
LostSendReached ==
    /\ lastCall.fn = "send_message"
    /\ lastCall.dest \in Range(network.connectedEdges[lastCall.node])
    /\ state[lastCall.node] = ACTIVE
    /\ state[lastCall.dest] = ACTIVE
    /\ corruption_stats.messages_lost = 1
    /\ pushes = <<>>

-----------------------------------------------------------------------------
(* Explicit topologies (initializationModule.py): parse_topology_file.     *)
(* network.topology_file holds the file: order lists its sections as they  *)
(* appear, ids the line of "IDs_List:", n the line of                      *)
(* "Number_Of_Computers:", root the line of "Root_ID:" and edges the pairs *)
(* of the line of "Edges:".                                                *)

\* the topology files of the model declare identifiers among 0..MaxIds - 1
MaxIds == 3

\* Initialization.parse_topology_file(file_path, network_variables), called by
\* __init__; a ParseTopologyFileError leaves __init__ (pc = "crashed")
ParseTopologyFile ==
    /\ pc = "parse"
    /\ LET file == network.topology_file
           \* the locals of the method after the lines of the first i sections
           lines[i \in 0..Len(file.order)] ==
               IF i = 0
               THEN [ids_set |-> {}, edges_set |-> {}, num_computers |-> 0,
                     root_id |-> [kind |-> "none", v |-> 0], raised |-> FALSE]
               ELSE LET st == lines[i - 1]
                        section == file.order[i]
                    IN  IF st.raised THEN st
                        ELSE CASE section = "ids_list" ->
                                    [st EXCEPT !.ids_set = @ \cup file.ids]
                               [] section = "number_of_computers" ->
                                    [st EXCEPT !.num_computers = file.n]
                               [] section = "root_id" ->
                                    [st EXCEPT !.root_id = file.root]
                               [] section = "edges" ->
                                    IF \E e \in file.edges :
                                          e[1] \notin st.ids_set \/ e[2] \notin st.ids_set
                                    THEN [st EXCEPT !.raised = TRUE]
                                    ELSE [st EXCEPT !.edges_set = @ \cup file.edges]
           parsed == lines[Len(file.order)]
           ids_set == parsed.ids_set
           computers == SortedSeq(ids_set)
           \* random.choice(self.connected_computers), or the declared root
           roots == IF parsed.root_id.kind = "random"
                    THEN IF ids_set = {} THEN {None} ELSE ids_set
                    ELSE IF parsed.root_id.kind = "int" THEN {parsed.root_id.v} ELSE {None}
           \* self.computer_number, self.connected_computers, self.network_dict
           created == [network EXCEPT !.computer_number = parsed.num_computers,
                                      !.connected_computers = computers,
                                      !.connectedEdges = [n \in ids_set |-> <<>>],
                                      !.is_root = [n \in ids_set |-> FALSE]]
           \* the root flag, the neighbour lists and the settings
           linked(root) ==
               [created EXCEPT
                  !.is_root = [n \in ids_set |-> n = root],
                  !.connectedEdges =
                      [n \in ids_set |-> SortedSeq(Neighbours(parsed.edges_set, n))],
                  !.topologyType = "Custom"]
           \* is_connected works on the positions in connected_computers
           index(n) == (CHOOSE i \in DOMAIN computers : computers[i] = n) - 1
           connected(net) ==
               UnionFindConnected(
                   [i \in 0..Len(computers) - 1 |->
                       [k \in DOMAIN net.connectedEdges[computers[i + 1]] |->
                           index(net.connectedEdges[computers[i + 1]][k])]],
                   Len(computers))
       IN  IF parsed.raised \/ Cardinality(ids_set) # parsed.num_computers
           THEN /\ pc' = "crashed"
                /\ UNCHANGED <<network, state, sent_msg_count, received_msg_count, fields>>
           ELSE /\ state' = [n \in ids_set |-> ACTIVE]
                /\ sent_msg_count' = [n \in ids_set |-> 0]
                /\ received_msg_count' = [n \in ids_set |-> 0]
                /\ fields' = [n \in ids_set |-> NoFields]
                /\ \E root \in roots :
                      IF root \notin ids_set
                      THEN /\ network' = created
                           /\ pc' = "crashed"
                      ELSE /\ network' = linked(root)
                           /\ pc' = IF connected(linked(root)) THEN "init" ELSE "crashed"
    /\ UNCHANGED <<corruption, heap, counter, dict, last_arrival_time, collapsed_nodes,
                   corruption_stats, idx, current_round, all_terminated, popped, lastCall,
                   delivered, pushes>>

\* Initialization.__init__ with a 'Topology File': every file of the four sections, with
\* the identifier list first or the edge list first, any identifiers, node count, root
\* ("random" or an integer) and edges between identifiers of 0..MaxIds - 1
InitParse ==
    \E ids \in SUBSET (0..MaxIds - 1), n \in 0..MaxIds, E \in SUBSET Pairs(MaxIds),
       root \in {[kind |-> "random", v |-> 0]}
                  \cup {[kind |-> "int", v |-> r] : r \in 0..MaxIds - 1},
       order \in {<<"ids_list", "number_of_computers", "root_id", "edges">>,
                  <<"edges", "ids_list", "number_of_computers", "root_id">>} :
        /\ Fresh(Network(0, {}, None)
                 @@ [computer_number |-> None,
                     topology_file |-> [order |-> order, ids |-> ids, n |-> n,
                                        root |-> root, edges |-> E]])
        /\ pc = "parse"

SpecParse == InitParse /\ [][ParseTopologyFile]_vars

\* the four conditions on a topology file
EdgeEndpointUndeclared ==
    \E e \in network.topology_file.edges :
        e[1] \notin network.topology_file.ids \/ e[2] \notin network.topology_file.ids

RootUndeclared ==
    /\ network.topology_file.root.kind # "random"
    /\ network.topology_file.root.v \notin network.topology_file.ids

CountDiffers == Cardinality(network.topology_file.ids) # network.topology_file.n

\* the graph on no node counts as not connected
GraphDisconnected ==
    \/ network.topology_file.ids = {}
    \/ \E a, b \in network.topology_file.ids :
          b \notin Reach(network.topology_file.edges, {a})

\* C21: once the topology file has been loaded, the load has failed with a parse
\* error exactly when an edge endpoint is not a declared identifier, the declared
\* root is neither a declared identifier nor "random", the number of declared
\* identifiers differs from the declared node count, or the graph is not connected
TopologyFileValidated ==
    pc # "parse" =>
        (pc = "crashed" <=> (\/ EdgeEndpointUndeclared
                             \/ RootUndeclared
                             \/ CountDiffers
                             \/ GraphDisconnected))

\* a file with one of the four defects never loads
DefectiveFileRejected ==
    (/\ pc # "parse"
     /\ EdgeEndpointUndeclared \/ RootUndeclared \/ CountDiffers \/ GraphDisconnected)
    => pc = "crashed"

\* a file without defect whose identifier list precedes its edge list loads
OrderedSoundFileLoads ==
    (/\ pc # "parse"
     /\ network.topology_file.order[1] = "ids_list"
     /\ ~(EdgeEndpointUndeclared \/ RootUndeclared \/ CountDiffers \/ GraphDisconnected))
    => pc = "init"

\* the network object as __init__ handed it to parse_topology_file
Unloaded ==
    /\ network.computer_number = None
    /\ network.connected_computers = <<>>
    /\ network.connectedEdges = <<>>
    /\ network.is_root = <<>>
    /\ state = <<>>

\* C22: when loading the topology file has failed, the node count, the node set, the
\* id-to-node mapping and the root flags of the network object are as they were
\* before the attempt
FailedLoadMutatesNothing == pc = "crashed" => Unloaded

\* a load that fails while the lines are read or at the comparison of the node count
\* leaves the network object as it was
EarlyFailureMutatesNothing ==
    (/\ pc = "crashed"
     /\ \/ CountDiffers
        \/ /\ EdgeEndpointUndeclared
           /\ network.topology_file.order[1] = "ids_list")
    => Unloaded

-----------------------------------------------------------------------------
(* Runs of an algorithm module that lacks a capability, on two connected   *)
(* computers in both disciplines: the module defines no init and sends to  *)
(* all neighbours or not in each step, or it defines no mainAlgorithm and  *)
(* sends to all neighbours or not in each init.                            *)

InitMissing ==
    \E sync \in {"Sync", "Async"}, missing \in {{"init"}, {"mainAlgorithm"}} :
        Start([Network(2, LineEdges(2), 0) EXCEPT
                  !.sync = sync, !.missing = missing,
                  !.plugin = [ops |-> {"none", "send_to_all"}, terms |-> {"none"},
                              payloads |-> {PlainPayload}, sent_times |-> {None}]])

SpecMissing == InitMissing /\ [][Next]_vars

\* C23: once run_algorithm has found that the algorithm lacks the capability it was
\* asked to invoke, the run goes no further: no message is taken from the queue, no
\* message is counted as received, no callback is handed payloads and no round ends
MissingCapabilityStopsRun ==
    [][lastCall.fn = "not found"
       => /\ heap' = heap
          /\ received_msg_count' = received_msg_count
          /\ delivered' = delivered
          /\ current_round' = current_round
          /\ lastCall'.fn \notin {"init", "mainAlgorithm"}]_vars

-----------------------------------------------------------------------------
(* Exceptions raised by the fault events. *)

\* C25: no send, delivery, collapse evaluation or round of a run raises an exception
\* that ends the run, whatever the payloads and the loss, corruption and collapse
\* configuration
FaultEventsNeverAbort == pc # "crashed"

\* corrupt_message returns a payload or None for every payload, corruption_info and
\* draw, and raises nothing
CorruptionNeverRaises == corruption.result # TypeErrorRaised

-----------------------------------------------------------------------------
(* The round-bucketed structure in the sync run. *)

\* C26: when the scheduler has processed a destination in a round (the lookup of its
\* messages for the round, then the clearing of the destination), the structure holds
\* no message for that destination and round; and once every message pushed has been
\* handed over, the structure is empty and its size is 0
ProcessedBucketRemoved ==
    /\ [][(/\ pc = "for"
           /\ idx <= NumComputers
           /\ state[network.connected_computers[idx]] = ACTIVE)
          => <<network.connected_computers[idx], current_round>> \notin DOMAIN dict']_vars
    /\ [](Len(delivered) = Len(pushes) => (dict = <<>> /\ DictSize(dict) = 0))

\* the lookup itself returns the messages pushed for the destination and the round, in
\* push order
LookupReturnsBucket ==
    \A n \in Ids, r \in 0..NUMBER_OF_ROUNDS + 1 :
        LET bucket == GetMessagesForSpecificDest(dict, n, r)
            pushed == {j \in DOMAIN pushes :
                          pushes[j].dest_id = n /\ pushes[j].arrival_time = r}
        IN  /\ Len(bucket) = Cardinality(pushed)
            /\ \A i \in DOMAIN bucket : \E j \in pushed : pushes[j] = bucket[i]

-----------------------------------------------------------------------------
(* Sync runs on two connected computers of a plugin that, in any callback,  *)
(* sends to one neighbour or to all or not at all, with the default         *)
(* sent_time, the round it was called with or any round up to MaxSentTime,  *)
(* and writes the sent_time it passed into the payload; the module declares *)
(* an empty collapse_config or none.                                        *)

MaxSentTime == 2

InitRound ==
    \E declared \in BOOLEAN :
    Start([Network(2, LineEdges(2), 0) EXCEPT
              !.collapse_declared = declared,
              !.plugin = [ops |-> {"none", "send", "send_to_all"}, terms |-> {"none", "last"},
                          payloads |-> {<<[kind |-> "stamp", v |-> <<>>], NoInfo>>},
                          sent_times |-> {None} \cup 0..MaxSentTime]])

SpecRound == InitRound /\ [][RunInit \/ SyncWhile \/ SyncNode \/ SyncRoundEnd]_vars

\* the sent_time a pushed message was sent with (0 when the default was passed)
SentTime(message) == IF message.content.v[1] = None THEN 0 ELSE message.content.v[1]

\* the pushed messages addressed to computer n for round r, in push order
RECURSIVE BucketFrom(_, _, _)
BucketFrom(j, n, r) ==
    IF j > Len(pushes) THEN <<>>
    ELSE (IF pushes[j].dest_id = n /\ pushes[j].arrival_time = r
          THEN <<pushes[j].content>> ELSE <<>>) \o BucketFrom(j + 1, n, r)

TurnHandsBucket ==
    LET comp == network.connected_computers[idx]
        bucket == BucketFrom(1, comp, current_round)
    IN  /\ lastCall'.fn = "mainAlgorithm"
        /\ lastCall'.node = comp
        /\ lastCall'.time = current_round
        /\ lastCall'.payloads = bucket
        /\ Len(delivered') = Len(delivered) + Len(bucket)
        /\ idx' = idx + 1

\* C28: in every sync round each computer that is neither Terminated nor Collapsed
\* when its turn comes has its step callback invoked once, with the round number and
\* the payloads addressed to it for the round in enqueue order, also when there are
\* none; and in round 0 every payload list is empty
StepOncePerTurn ==
    /\ [][(/\ pc = "for"
           /\ idx <= NumComputers
           /\ state[network.connected_computers[idx]] = ACTIVE)
          => TurnHandsBucket]_vars
    /\ []((network.sync = "Sync" /\ lastCall.fn = "mainAlgorithm" /\ lastCall.time = 0)
          => lastCall.payloads = <<>>)

\* the same when the algorithm module declares a collapse_config
StepOncePerTurnIfDeclared ==
    /\ [][(/\ pc = "for"
           /\ idx <= NumComputers
           /\ network.collapse_declared
           /\ state[network.connected_computers[idx]] = ACTIVE)
          => TurnHandsBucket]_vars
    /\ []((network.sync = "Sync" /\ lastCall.fn = "mainAlgorithm" /\ lastCall.time = 0)
          => lastCall.payloads = <<>>)

-----------------------------------------------------------------------------
(* The init phase of a run.                                                *)

\* one iteration of the init phase invokes init on the computer whose turn it is and
\* passes on to the next computer, or to the main phase after the last one
InitTurnInOrder ==
    /\ lastCall'.fn = "init"
    /\ lastCall'.node = network.connected_computers[idx]
    /\ delivered' = <<>>
    /\ IF idx < NumComputers
       THEN pc' = "init" /\ idx' = idx + 1
       ELSE pc' = (IF network.sync = "Sync" THEN "while" ELSE "loop")

\* during the init phase the computers before the one whose turn it is, and only
\* they, have had init invoked, the last of them most recently; no step callback has
\* been invoked and no payload has been handed over
InitPhaseSoFar ==
    pc = "init"
    => /\ idx \in 1..NumComputers
       /\ delivered = <<>>
       /\ lastCall.fn # "mainAlgorithm"
       /\ (lastCall.fn = "init") = (idx > 1)
       /\ idx > 1 => lastCall.node = network.connected_computers[idx - 1]

\* C29: in both disciplines init is invoked once on every computer, in the order of
\* connected_computers, and never after the init phase; no step callback is invoked
\* and no message is delivered before init has been invoked on all computers
InitOnEveryNodeFirst ==
    /\ [][pc = "init" => InitTurnInOrder]_vars
    /\ [][(pc # "init" /\ lastCall' # lastCall) => lastCall'.fn # "init"]_vars
    /\ []InitPhaseSoFar

\* the same when the algorithm module declares a collapse_config
InitOnEveryNodeFirstIfDeclared ==
    /\ [][(pc = "init" /\ network.collapse_declared) => InitTurnInOrder]_vars
    /\ [][(pc # "init" /\ lastCall' # lastCall) => lastCall'.fn # "init"]_vars
    /\ []InitPhaseSoFar

\* the init phase is over and messages enqueued during it are being delivered
InitPhaseCompleted ==
    /\ pc \in {"loop", "for"}
    /\ network.collapse_declared
    /\ Len(delivered) > 0
    /\ NumComputers > 1

-----------------------------------------------------------------------------
(* send_to_all on its own: calls from any computer of a triangle, between  *)
(* changes of the computers' states.                                       *)

\* the calls of send_to_all stop once this many messages have been pushed or have
\* passed the loss gate
MaxAllPushes == 2

\* comm.send_to_all(source_id, message_info, None, corruption_info) from any computer,
\* without fault configuration or with a loss probability of 0.5
SendToAllCall ==
    /\ pc \in {"loop", "for"}
    /\ \E source \in Ids, pl \in {PlainPayload, LossyPayload} :
          \E ds \in [1..Len(network.connectedEdges[source]) ->
                        DrawsFor(source, pl[1], pl[2])] :
             LET returned(s) ==
                     /\ Len(s.pushes) <= MaxAllPushes
                     /\ s.corruption_stats.total_messages_processed <= MaxAllPushes
                     /\ Commit([s EXCEPT !.lastCall =
                                   [node |-> source, fn |-> "send_to_all", time |-> None,
                                    payloads |-> <<pl[1]>>, info |-> pl[2]]])
                     /\ pc' = IF s.crashed THEN "crashed" ELSE pc
             IN  returned(SendToAll(Cur, source, pl[1], None, pl[2], ds))
    /\ UNCHANGED <<network, corruption, idx, current_round, all_terminated, popped>>

SpecSendAll ==
    /\ \E m \in {x \in Modes : x.delay_type = "Constant"},
          f \in {x \in CollapseDeclarations :
                   x.overall = 0 /\ \A n \in DOMAIN x.node_configs :
                                      x.node_configs[n].sent_msg_count # None} :
          /\ Fresh([Network(3, CliqueEdges(3), 0) EXCEPT
                      !.sync = m.sync, !.delay_type = m.delay_type,
                      !.unordered_edges = m.unordered,
                      !.collapse_declared = f.declared, !.node_configs = f.node_configs,
                      !.overall_collapse_percent = f.overall])
          /\ pc = IF m.sync = "Sync" THEN "for" ELSE "loop"
    /\ [][SendToAllCall \/ StateCall]_vars

\* the step is a call of send_to_all whose pushes follow the neighbour list of the
\* source: every new message goes from the source to one of its neighbours, and the
\* new messages are in the order of the list, at most one per entry; when no collapse
\* is configured, the source is Active and all its neighbours are Active, every entry
\* gets its send: a payload without fault configuration is pushed once per neighbour
\* in list order and the sent count of the source grows by its degree, and a payload
\* with a loss probability passes the loss gate once per neighbour
SendToAllFollowsList ==
    LET source == lastCall'.node
        list == network.connectedEdges[source]
        degree == Len(list)
        first == Len(pushes)
        pos(d) == CHOOSE k \in 1..degree : list[k] = d
        fresh == (first + 1)..Len(pushes')
    IN  /\ Len(pushes') >= first
        /\ \A j \in fresh : /\ pushes'[j].source_id = source
                             /\ pushes'[j].dest_id \in Range(list)
                             /\ pushes'[j].content = lastCall'.payloads[1]
        /\ \A i, j \in fresh : i < j => pos(pushes'[i].dest_id) < pos(pushes'[j].dest_id)
        /\ (/\ network.node_configs = <<>>
            /\ state[source] = ACTIVE
            /\ \A k \in 1..degree : state[list[k]] = ACTIVE)
           => /\ pc' # "crashed"
              /\ corruption_stats'.total_messages_processed =
                    corruption_stats.total_messages_processed
                    + (IF lastCall'.info.present THEN degree ELSE 0)
              /\ ~lastCall'.info.present
                 => /\ Len(pushes') = first + degree
                    /\ \A k \in 1..degree : pushes'[first + k].dest_id = list[k]
                    /\ sent_msg_count' =
                          [sent_msg_count EXCEPT ![source] = @ + degree]

\* C30: send_to_all performs one send per entry of the source's neighbour list, in
\* list order; with no faults, an Active source and all neighbours Active it pushes
\* degree(source) messages, one per neighbour in that order, and raises the sent count
\* of the source by degree(source)
SendToAllOncePerNeighbour ==
    [][(lastCall' # lastCall /\ lastCall'.fn = "send_to_all") => SendToAllFollowsList]_vars

\* the same when the algorithm module declares a collapse_config
SendToAllOncePerNeighbourIfDeclared ==
    [][(/\ lastCall' # lastCall
        /\ lastCall'.fn = "send_to_all"
        /\ network.collapse_declared) => SendToAllFollowsList]_vars

\* a computer has sent to both its neighbours with one send_to_all
SentToBothNeighbours ==
    /\ lastCall.fn = "send_to_all"
    /\ network.collapse_declared
    /\ Len(pushes) = 2
    /\ sent_msg_count[lastCall.node] = 2
    /\ pushes[1].dest_id < pushes[2].dest_id
    /\ pc # "crashed"

-----------------------------------------------------------------------------
(* The message counters of the computers.                                  *)

\* the sum of a counter over the computers of the network
TotalOf(count) ==
    LET sum[i \in 0..NumComputers] ==
            IF i = 0 THEN 0 ELSE sum[i - 1] + count[network.connected_computers[i]]
    IN  sum[NumComputers]

\* the number of messages from computer n among those pushed after the first k
PushedBy(all, k, n) ==
    Cardinality({j \in (k + 1)..Len(all) : all[j].source_id = n})

\* C31: at every point of a run the sent counts of the computers add up to the number
\* of messages ever pushed into the ordering structure (in async mode the sequence
\* count of the heap), and every step raises the sent count of a computer by the
\* number of messages from it that the step pushed: a refused or lost send counts
\* nothing
SentCountsMatchPushes ==
    /\ [](TotalOf(sent_msg_count) = Len(pushes))
    /\ [](network.sync = "Async" => counter = TotalOf(sent_msg_count))
    /\ [][/\ Len(pushes') >= Len(pushes)
          /\ \A n \in Ids :
                sent_msg_count'[n] = sent_msg_count[n] + PushedBy(pushes', Len(pushes), n)]_vars

\* both computers have sent, and a message was lost on the way
SentAndLost ==
    /\ \A n \in Ids : sent_msg_count[n] > 0
    /\ corruption_stats.messages_lost > 0
    /\ network.sync = "Async"

\* C32: at every point of a run the received count of a computer is the number of
\* payloads handed to its step callback so far, and the received counts add up to no
\* more than the sent counts
ReceivedCountsMatchHanded ==
    /\ \A n \in Ids : received_msg_count[n] = Cardinality(HandedTo(n))
    /\ TotalOf(received_msg_count) <= TotalOf(sent_msg_count)

\* the same between the callbacks of a run that has not been aborted
ReceivedCountsMatchHandedUnlessAborted ==
    pc # "crashed" => ReceivedCountsMatchHanded

-----------------------------------------------------------------------------
(* Collapse evaluation on computers that are not Active.                   *)

\* the current_round arguments should_collapse is called with
RoundArguments == {NoRound, MessageRound} \cup {IntRound(r) : r \in 0..NUMBER_OF_ROUNDS}

\* C33: collapse evaluation and the random-collapse step act only on Active
\* computers: evaluating a computer that is Terminated or Collapsed changes no state
\* and records no collapse, whatever the round, the draw and its counters are, the
\* random step leaves such computers as they are, and so no step of a run changes the
\* state of a computer that is not Active
CollapseOnlyActive ==
    /\ [](\A n \in Ids, cr \in RoundArguments, draw \in ProbDraws :
            state[n] # ACTIVE
            => LET evaluated(s) == /\ s.state = state
                                   /\ s.collapsed_nodes = collapsed_nodes
               IN  evaluated(ShouldCollapse(Cur, n, cr, draw)))
    /\ [](\A selected \in RandomSamples(Cur) :
            LET stepped(s) == \A n \in Ids : state[n] # ACTIVE => s.state[n] = state[n]
            IN  stepped(MaybeCollapseRandomly(Cur, selected)))
    /\ [][\A n \in Ids : state[n] # ACTIVE => state'[n] = state[n]]_vars

\* a Terminated computer whose sent-count trigger is met, in a later round
TerminatedPastTrigger ==
    \E n \in DOMAIN network.node_configs :
        /\ state[n] = TERMINATED
        /\ network.node_configs[n].sent_msg_count # None
        /\ sent_msg_count[n] > network.node_configs[n].sent_msg_count
        /\ pc # "crashed"

\* a Terminated computer at the end of a round with a global collapse fraction
TerminatedAtRandomStep ==
    /\ network.overall_collapse_percent > 0
    /\ pc = "while"
    /\ current_round > 0
    /\ \E n \in Ids : state[n] = TERMINATED
    /\ collapsed_nodes = {}

-----------------------------------------------------------------------------
(* Round triggers: sync runs of an arbitrary plugin on two computers, one   *)
(* of which has a round trigger with any recurrence period and probability *)
(* 1, alone or with a received-count or a sent-count threshold.            *)

\* the recurrence periods of the configurations
MaxPeriod == 2

SpecTrigger ==
    /\ \E n \in 0..1, round \in 0..NUMBER_OF_ROUNDS, period \in 1..MaxPeriod,
          received \in {None, 1}, sent \in {None, 1} :
          Start([Network(2, LineEdges(2), 0) EXCEPT
                   !.node_configs =
                       (n :> [NodeConfig(round, 4, received, sent) EXCEPT
                                !.round_reoccurrence = period]),
                   !.plugin = [ops |-> {"none", "send"}, terms |-> {"none", "last"},
                               payloads |-> {PlainPayload}, sent_times |-> {None}]])
    /\ [][RunInit \/ SyncWhile \/ SyncNode \/ SyncRoundEnd]_vars

\* round r is one in which the round trigger of configuration c fires
RoundMatches(c, r) ==
    r >= c.round /\ (r - c.round) % c.round_reoccurrence = 0

\* the count thresholds of configuration c are met by computer n
CountsMet(c, n) ==
    \/ c.received_msg_count # None /\ received_msg_count[n] >= c.received_msg_count
    \/ c.sent_msg_count # None /\ sent_msg_count[n] >= c.sent_msg_count

\* C34: under the sync discipline, for a computer with round trigger R, recurrence
\* period P >= 1 and probability 1, collapse evaluation in round r collapses the
\* computer by the round trigger exactly when it is Active, r >= R and
\* (r - R) mod P = 0: in such a round it collapses whatever its counters are, in any
\* other round, and in every round before R, it collapses only if a count threshold
\* is met, and the evaluation changes nothing else; in a run the computer enters its
\* step callback of round r Collapsed exactly in these cases
RoundTriggerExact ==
    /\ [](\A n \in DOMAIN network.node_configs, r \in 0..NUMBER_OF_ROUNDS,
             draw \in ProbDraws :
            LET c == network.node_configs[n]
                fires == state[n] = ACTIVE /\ RoundMatches(c, r)
                evaluated(s) ==
                    /\ fires => s = CollapseNode(Cur, n)
                    /\ (~fires /\ ~(state[n] = ACTIVE /\ CountsMet(c, n))) => s = Cur
                    /\ (~fires /\ state[n] = ACTIVE /\ CountsMet(c, n))
                       => s = CollapseNode(Cur, n)
                    /\ (r < c.round /\ ~CountsMet(c, n)) => s.state[n] = state[n]
            IN  evaluated(ShouldCollapse(Cur, n, IntRound(r), draw)))
    /\ [][(/\ pc = "for"
           /\ idx <= NumComputers
           /\ state[network.connected_computers[idx]] = ACTIVE
           /\ network.connected_computers[idx] \in DOMAIN network.node_configs)
          => LET n == network.connected_computers[idx]
                 c == network.node_configs[n]
             IN  /\ lastCall'.node = n
                 /\ lastCall'.time = current_round
                 /\ (lastCall'.entry_state = COLLAPSED)
                    = (\/ RoundMatches(c, current_round)
                       \/ c.received_msg_count # None
                          /\ received_msg_count'[n] >= c.received_msg_count
                       \/ c.sent_msg_count # None
                          /\ sent_msg_count[n] >= c.sent_msg_count)]_vars

\* a computer whose only trigger is round 1 with period 2 entered its step callback
\* of round 0 Active and that of round 1 Collapsed
CollapsedInTriggerRound ==
    \E n \in DOMAIN network.node_configs :
        /\ network.node_configs[n].round_reoccurrence = 2
        /\ network.node_configs[n].round = 1
        /\ network.node_configs[n].received_msg_count = None
        /\ network.node_configs[n].sent_msg_count = None
        /\ lastCall.node = n
        /\ lastCall.fn = "mainAlgorithm"
        /\ lastCall.time = 1
        /\ lastCall.entry_state = COLLAPSED
        /\ n \in collapsed_nodes

-----------------------------------------------------------------------------
(* The random-collapse step: sync runs on a line of three computers with   *)
(* any overall collapse fraction, alone or with a round trigger on one     *)
(* computer; the plugin only terminates.                                   *)

\* overall_collapse_percent is drawn from -1..MaxOverall quarters
MaxOverall == 4

SpecRandom ==
    /\ \E overall \in -1..MaxOverall,
          configs \in {<<>>} \cup {(n :> NodeConfig(1, 4, None, None)) : n \in 0..1} :
          Start([Network(3, LineEdges(3), 0) EXCEPT
                   !.overall_collapse_percent = overall,
                   !.node_configs = configs,
                   !.plugin = [ops |-> {"none"}, terms |-> {"none", "last"},
                               payloads |-> {}, sent_times |-> {None}]])
    /\ [][RunInit \/ SyncWhile \/ SyncNode \/ SyncRoundEnd]_vars

\* int(total_nodes * overall_collapse_percent)
TargetCollapseCount == (NumComputers * network.overall_collapse_percent) \div 4

\* C35: every random-collapse step collapses at most the target floor(N * p) minus
\* the number of computers already collapsed, only computers that are Active, and
\* none when p <= 0 or the target is already met; it changes no other computer, so
\* the number collapsed never exceeds the target because of the step
RandomCollapseWithinTarget ==
    [][(pc = "for" /\ idx > NumComputers)
       => LET fresh == collapsed_nodes' \ collapsed_nodes
              remaining == TargetCollapseCount - Cardinality(collapsed_nodes)
          IN  /\ collapsed_nodes \subseteq collapsed_nodes'
              /\ \A n \in fresh : state[n] = ACTIVE /\ state'[n] = COLLAPSED
              /\ \A n \in Ids \ fresh : state'[n] = state[n]
              /\ Cardinality(fresh) <= Max(0, remaining)
              /\ Cardinality(fresh) <= Cardinality({n \in Ids : state[n] = ACTIVE})
              /\ (network.overall_collapse_percent <= 0 \/ remaining <= 0) => fresh = {}
              /\ fresh # {} => Cardinality(collapsed_nodes') <= TargetCollapseCount]_vars

\* the target of two computers has been met by a round trigger and a random step, and
\* the third computer is still Active in a later round
TargetMetByBoth ==
    /\ TargetCollapseCount = 2
    /\ network.node_configs # <<>>
    /\ Cardinality(collapsed_nodes) = 2
    /\ \E n \in Ids : state[n] = ACTIVE
    /\ current_round = NUMBER_OF_ROUNDS
    /\ pc = "while"

-----------------------------------------------------------------------------
(* Per-edge order: async runs with random delays on two computers whose    *)
(* edge is ordered or unordered.  The plugin stamps each payload with the  *)
(* sent_time it passes, and sends it plainly or with a loss probability.   *)

\* the network with its reorder_config attached: the edges drawn as unordered by
\* ReorderConfig.roll_the_dice
AttachReorderConfig(net, unordered) == [net EXCEPT !.unordered_edges = unordered]

SpecReorder ==
    /\ \E unordered \in {{}, {<<0, 1>>}} :
          Start([AttachReorderConfig(Network(2, LineEdges(2), 0), unordered) EXCEPT
                   !.sync = "Async", !.delay_type = "Random",
                   !.plugin = [ops |-> {"none", "send"}, terms |-> {"none"},
                               payloads |-> {<<[kind |-> "stamp", v |-> <<>>], NoInfo>>,
                                             <<[kind |-> "stamp", v |-> <<>>],
                                               LossyPayload[2]>>},
                               sent_times |-> {None} \cup 0..MaxSentTime]])
    /\ [][RunInit \/ AsyncDeliver \/ AsyncFinish]_vars

\* the messages pushed on the directed edge from source to dest, in push order, and
\* the payloads handed to dest, in delivery order, each with its arrival time
PushedOn(source, dest) ==
    LET on[j \in 0..Len(pushes)] ==
            IF j = 0 THEN <<>>
            ELSE IF pushes[j].source_id = source /\ pushes[j].dest_id = dest
                 THEN Append(on[j - 1], <<pushes[j].content, pushes[j].arrival_time>>)
                 ELSE on[j - 1]
    IN  on[Len(pushes)]

DeliveredTo(dest) ==
    LET to[i \in 0..Len(delivered)] ==
            IF i = 0 THEN <<>>
            ELSE IF delivered[i].node = dest
                 THEN Append(to[i - 1], <<delivered[i].content, delivered[i].time>>)
                 ELSE to[i - 1]
    IN  to[Len(delivered)]

\* sequence a can be obtained from sequence b by leaving elements out
IsSubsequence(a, b) ==
    LET at[i \in 0..Len(a), j \in 0..Len(b)] ==
            IF i = 0 THEN TRUE
            ELSE IF j = 0 THEN FALSE
            ELSE IF a[i] = b[j] THEN at[i - 1, j - 1] ELSE at[i, j - 1]
    IN  at[Len(a), Len(b)]

\* C36: under the async discipline with random delays, on every directed edge that is
\* not marked unordered the messages are handed to the destination in the order in
\* which they were sent on the edge, also when other messages of the edge were lost:
\* the arrival times pushed on the edge never decrease, and what has been handed to
\* the destination is what was pushed on the edge, in push order, with gaps only for
\* messages not yet or never handed over
EdgeFifo ==
    \A source \in Ids, dest \in Ids :
        (source # dest /\ {<<source, dest>>, <<dest, source>>} \cap network.unordered_edges = {})
        => /\ \A i, j \in DOMAIN PushedOn(source, dest) :
                 i < j => PushedOn(source, dest)[i][2] <= PushedOn(source, dest)[j][2]
           /\ IsSubsequence(DeliveredTo(dest), PushedOn(source, dest))

\* on the ordered edge a message stamped 2 and then a message stamped 0 have been
\* handed over in the order they were sent, in a run in which a message was lost
LaterStampDeliveredFirst ==
    /\ network.unordered_edges = {}
    /\ corruption_stats.messages_lost > 0
    /\ Len(DeliveredTo(1)) = 2
    /\ DeliveredTo(1)[1][1] = StrContent(<<2>>)
    /\ DeliveredTo(1)[2][1] = StrContent(<<0>>)

\* C37: an edge marked unordered is exempt from the ordering rule in both directions:
\* the arrival time of a message pushed on it in either direction is the sent_time
\* it was sent with plus its own random delay, never raised to the last arrival time
\* of the edge, so that a message sent later can arrive earlier
UnorderedEdgeExempt ==
    \A j \in DOMAIN pushes :
        <<Min(pushes[j].source_id, pushes[j].dest_id),
          Max(pushes[j].source_id, pushes[j].dest_id)>> \in network.unordered_edges
        => pushes[j].arrival_time - SentTime(pushes[j]) \in 0..RandomScale

\* on the unordered edge, in the direction from computer 1 to computer 0, a message
\* sent later has been handed over before a message sent earlier
OvertakenOnUnorderedEdge ==
    /\ network.unordered_edges = {<<0, 1>>}
    /\ Len(DeliveredTo(0)) = 2
    /\ Len(PushedOn(1, 0)) = 2
    /\ DeliveredTo(0)[1] = PushedOn(1, 0)[2]
    /\ DeliveredTo(0)[2] = PushedOn(1, 0)[1]
    /\ PushedOn(1, 0)[1][2] > PushedOn(1, 0)[2][2]

-----------------------------------------------------------------------------
(* Sends of a Terminated computer.                                         *)

-----------------------------------------------------------------------------
(* Sent-count triggers: send_to_all from any computer of a line of three   *)
(* in which the middle computer 1 has a sent-count trigger with            *)
(* probability 1, between changes of the computers' states.                *)

\* the sent-count thresholds of the configurations
MaxThreshold == 2

SpecThreshold ==
    /\ \E sync \in {"Sync", "Async"}, k \in 1..MaxThreshold :
          /\ Fresh([Network(3, LineEdges(3), 0) EXCEPT
                      !.sync = sync,
                      !.node_configs = (1 :> NodeConfig(None, 4, None, k))])
          /\ pc = IF sync = "Sync" THEN "for" ELSE "loop"
    /\ [][SendToAllCall \/ StateCall]_vars

\* the computers with a sent-count trigger of probability 1
SentTriggered ==
    {n \in DOMAIN network.node_configs :
        /\ network.node_configs[n].sent_msg_count # None
        /\ network.node_configs[n].probability = 4}

-----------------------------------------------------------------------------
(* Messages enqueued for a round that is already past: sync runs on two    *)
(* computers of a plugin that writes into each payload the sent_time it    *)
(* passes and the round it was called in.                                  *)

SpecStale ==
    /\ \E declared \in BOOLEAN :
          Start([Network(2, LineEdges(2), 0) EXCEPT
                   !.collapse_declared = declared,
                   !.plugin = [ops |-> {"none", "send"}, terms |-> {"none", "last"},
                               payloads |-> {<<[kind |-> "stamp_called", v |-> <<>>],
                                               NoInfo>>},
                               sent_times |-> {None} \cup 0..MaxSentTime]])
    /\ [][RunInit \/ SyncWhile \/ SyncNode \/ SyncRoundEnd]_vars

\* the position of computer n in connected_computers
Position(n) == CHOOSE i \in 1..NumComputers : network.connected_computers[i] = n

\* the arrival round of the pushed message was already past for its destination when
\* it was pushed from the step callback of round content.v[2]: it is below that round,
\* or it is that round and the destination had its turn before the sender
PastWhenPushed(message) ==
    /\ message.content.v[2] # None
    /\ \/ message.arrival_time < message.content.v[2]
       \/ /\ message.arrival_time = message.content.v[2]
          /\ Position(message.dest_id) < Position(message.source_id)

\* the pushed message has been handed to a step callback
Handed(message) ==
    \E i \in DOMAIN delivered :
        delivered[i].node = message.dest_id /\ delivered[i].content = message.content

\* C40 as stated, with its example: a message sent from a step callback in a round
\* >= 1 without a sent_time is never handed to a step callback
OmittedSentTimeNeverHanded ==
    \A j \in DOMAIN pushes :
        (/\ pushes[j].content.v[1] = None
         /\ pushes[j].content.v[2] # None
         /\ pushes[j].content.v[2] >= 1) => ~Handed(pushes[j])

\* C40: under the sync discipline a message whose arrival round is already past for
\* its destination when it is pushed is never handed to a step callback and never
\* counted as received (the received counts are the numbers of payloads handed
\* over), while the sent count of its sender is incremented (the sent counts add up
\* to the number of pushes)
PastRoundNeverHanded ==
    /\ \A j \in DOMAIN pushes : PastWhenPushed(pushes[j]) => ~Handed(pushes[j])
    /\ pc # "crashed" => \A n \in Ids : received_msg_count[n] = Cardinality(HandedTo(n))
    /\ TotalOf(sent_msg_count) = Len(pushes)

\* the run has ended with both computers Active; computer 1 sent without sent_time
\* in round 2, and computer 0 has received nothing
PastRoundMessageStranded ==
    /\ pc = "done"
    /\ \A n \in Ids : state[n] = ACTIVE
    /\ Len(pushes) = 1
    /\ pushes[1].source_id = 1
    /\ pushes[1].content = StrContent(<<None, 2>>)
    /\ pushes[1].arrival_time = 1
    /\ PastWhenPushed(pushes[1])
    /\ sent_msg_count[1] = 1
    /\ received_msg_count[0] = 0
    /\ delivered = <<>>

====
